---- MODULE Spec2Model ----
(***************************************************************************)
(* Model of the IOMgr catalog core of Siodb (class Database,               *)
(* iomgr/lib/dbengine/Database.cpp): the identifier service, the           *)
(* constraint-definition interning, the use-count and createUserTable.     *)
(*                                                                         *)
(* Integer widths are scaled: TridMax stands for                           *)
(* std::numeric_limits<std::uint64_t>::max(), TableIdMax for               *)
(* std::numeric_limits<std::uint32_t>::max(), and the first-user           *)
(* thresholds are scaled with them, so that the counters' limits are       *)
(* within reach of the model checker.  Arithmetic on a counter is taken    *)
(* modulo TridMax + 1, as unsigned arithmetic is.                          *)
(***************************************************************************)
EXTENDS Integers, Sequences, FiniteSets, TLC

VARIABLES
    m_tmpTridCounters,  \* kind -> temporary in-memory counter (bootstrap)
    m_sysTables,        \* kinds whose system table pointer (m_sys*Table) is set
    m_lastSystemTrid,   \* kind -> last system TRID of the kind's system table
    m_lastUserTrid,     \* kind -> last user TRID of the kind's system table
    minted,             \* history: <<kind, system, id>> of every id returned
    lastAlloc           \* history: outcome of the last generateNext*Id call

idVars == <<m_tmpTridCounters, m_sysTables, m_lastSystemTrid, m_lastUserTrid,
            minted, lastAlloc>>

VARIABLES
    m_useCount,         \* std::atomic<std::size_t> m_useCount
    initialUseCount,    \* history: the use count before any release()
    relPc,              \* thread -> position inside release()
    useCount,           \* thread -> release()'s local useCount
    desiredUseCount,    \* thread -> release()'s local desiredUseCount
    relOutcome          \* thread -> how the thread's release() ended

relVars == <<m_useCount, initialUseCount, relPc, useCount, desiredUseCount,
             relOutcome>>

VARIABLES
    m_mutex,                         \* thread that holds Database::m_mutex, 0: free
    m_constraintDefinitionRegistry,  \* set of ConstraintDefinitionRecord
    m_constraintDefinitionCache,     \* ids of the cached definitions, least recently used first
    cdPc,                            \* thread -> position inside its catalog call
    cdCall,                          \* thread -> the call it is executing
    cdResult,                        \* thread -> what the call returns or raises
    createdBy,                       \* history: <<id, op, system>> of every definition constructed and registered
    cdCalls                          \* number of calls started

cdVars == <<m_mutex, m_constraintDefinitionRegistry, m_constraintDefinitionCache,
            cdPc, cdCall, cdResult, createdBy, cdCalls>>

VARIABLES
    m_tableRegistry,       \* set of TableRecord
    m_tableCache,          \* ids of the cached tables, least recently used first
    m_columnRegistry,      \* set of ColumnRecord
    m_constraintRegistry,  \* set of ConstraintRecord
    cutPc,                 \* position inside createUserTable
    cutCall,               \* the arguments of the createUserTable call
    cutResult              \* what the call returns or raises

cutVars == <<m_tableRegistry, m_tableCache, m_columnRegistry, m_constraintRegistry,
             cutPc, cutCall, cutResult>>

VARIABLES
    catPc,                    \* thread -> position inside its catalog call
    catCall,                  \* thread -> the call it is executing
    catResult,                \* thread -> what the call returned or raised
    catCalls,                 \* number of calls started
    otherConstraintRegistry   \* m_constraintRegistry of a second database

catVars == <<catPc, catCall, catResult, catCalls, otherConstraintRegistry>>

VARIABLES
    dataDirExists,      \* the database data directory exists
    dataDirFiles,       \* number of files in it other than the initialization flag file
    initFlagFile,       \* the initialization flag file: "absent", "empty" or "written"
    dirPc,              \* position inside ensureDataDir / createInitializationFlagFile
    dirCall,            \* the call in progress
    dirResult,          \* what the last completed call returned or raised
    flagFileCompleted,  \* history: createInitializationFlagFile succeeded since the directory was last created
    flagFileRaised      \* history: the last createInitializationFlagFile to end raised

dirVars == <<dataDirExists, dataDirFiles, initFlagFile, dirPc, dirCall, dirResult,
             flagFileCompleted, flagFileRaised>>

VARIABLES
    m_columnDefinitionRegistry,  \* set of ColumnDefinitionRecord
    m_columnSetRegistry,         \* set of ColumnSetRecord
    m_indexRegistry              \* set of IndexRecord

regVars == <<m_columnDefinitionRegistry, m_columnSetRegistry, m_indexRegistry>>

VARIABLES
    config,      \* the instance configuration file, option by option
    m_options,   \* the InstanceOptions object load is called on
    loadResult   \* how load ended

optVars == <<config, m_options, loadResult>>

VARIABLES
    mainPc,             \* where each server process is in siodbMain
    commandLine,        \* the command line of each server process
    exitCode,           \* what siodbMain returned
    exitCause,          \* the statement that made siodbMain return
    lockHolders,        \* the processes that hold the initialization lock
    iomgrInitFlagFile,  \* the IOMgr initialization flag file
    iomgr,              \* the IOMgr that the monitor of each process runs
    observed,           \* what the waiting loop and the check after it saw
    managers,           \* the connection managers each process has created
    removedFlag         \* whether the process has removed the flag file
mainVars == <<mainPc, commandLine, exitCode, exitCause, lockHolders, iomgrInitFlagFile,
              iomgr, observed, managers, removedFlag>>

VARIABLES
    clientPc,       \* where the client is in executeCommandOnServer
    requestId,      \* the request id of the command
    stopOnError,    \* the argument stopOnError
    responseId,     \* the local responseId
    responseCount,  \* the local responseCount
    received,       \* the responses that readMessage has returned, in order
    rowDataRead,    \* the positions in received of the responses whose rows were read
    clientError     \* the exception that ended the call
clientVars == <<clientPc, requestId, stopOnError, responseId, responseCount, received,
                rowDataRead, clientError>>

\* The loaded Table objects and their holders.
VARIABLES
    tableObjects    \* the table cache's slots, each thread's handles, objects made

\* Lookups in the column-definition history.
VARIABLES
    latestResult    \* what the last getLatestColumnDefinitionIdForColumn call did

\* The client's authentication handshake.
VARIABLES
    auth            \* authenticate: position, messages on the connection, how it ended

\* The calls of catalog functions that are in progress.
VARIABLES
    callStacks      \* the owner and the depth of m_mutex, each thread's stack of calls
objVars == <<tableObjects, latestResult, auth, callStacks>>

\* The state outside the catalog registries of class Database.
outerVars == <<optVars, mainVars, clientVars, objVars>>

vars == <<idVars, relVars, cdVars, cutVars, catVars, dirVars, regVars, outerVars>>

-----------------------------------------------------------------------------
(* Identifier service                                                      *)

\* std::numeric_limits<std::uint64_t>::max(), scaled.
TridMax == 6

\* std::numeric_limits<std::uint32_t>::max(), scaled.
TableIdMax == 5

\* First id of the user range of constraint definitions, scaled.
kFirstUserTableConstraintDefinitionId == 3

Kinds == {"Table", "Column", "ColumnDefinition", "ColumnSet", "ColumnSetColumn",
          "ConstraintDefinition", "Constraint", "ColumnDefinitionConstraint",
          "Index", "IndexColumn"}

\* The first-user threshold of a kind ("analogous thresholds for other kinds").
FirstUserTrid(kind) == kFirstUserTableConstraintDefinitionId

\* ++counter on an unsigned 64-bit counter.
PreIncrement(counter) == (counter + 1) % (TridMax + 1)

\* Table::generateNextSystemTrid(): the next id of the system half of the
\* system table's row ids; the system half ends below the first user TRID.
generateNextSystemTrid(kind) ==
    LET exact == m_lastSystemTrid[kind] + 1 IN
    IF exact >= FirstUserTrid(kind)
    THEN [status |-> "ResourceExhausted", id |-> 0, exact |-> exact,
          tmp |-> m_tmpTridCounters[kind],
          sys |-> m_lastSystemTrid[kind], usr |-> m_lastUserTrid[kind]]
    ELSE [status |-> "ok", id |-> exact, exact |-> exact,
          tmp |-> m_tmpTridCounters[kind],
          sys |-> exact, usr |-> m_lastUserTrid[kind]]

\* Table::generateNextUserTrid(): the next id of the user half.
generateNextUserTrid(kind) ==
    LET exact == m_lastUserTrid[kind] + 1 IN
    IF exact > TridMax
    THEN [status |-> "ResourceExhausted", id |-> 0, exact |-> exact,
          tmp |-> m_tmpTridCounters[kind],
          sys |-> m_lastSystemTrid[kind], usr |-> m_lastUserTrid[kind]]
    ELSE [status |-> "ok", id |-> exact, exact |-> exact,
          tmp |-> m_tmpTridCounters[kind],
          sys |-> m_lastSystemTrid[kind], usr |-> exact]

\* ++m_tmpTridCounters.m_lastXxxId: the bootstrap branch of generateNext*Id.
\* "exact" is the mathematical value counter + 1, "id" the value returned.
TmpCounterNext(kind) ==
    LET exact == m_tmpTridCounters[kind] + 1
        id == PreIncrement(m_tmpTridCounters[kind]) IN
    [status |-> "ok", id |-> id, exact |-> exact, tmp |-> id,
     sys |-> m_lastSystemTrid[kind], usr |-> m_lastUserTrid[kind]]

\* The value the conditional expression of a generateNext*Id function yields.
NextTrid(kind, system) ==
    IF system
    THEN IF kind \in m_sysTables THEN generateNextSystemTrid(kind)
                                 ELSE TmpCounterNext(kind)
    ELSE generateNextUserTrid(kind)

\* Database::generateNextColumnId .. generateNextIndexColumnId: the value is
\* returned as it is.
generateNextId64(kind, system) == NextTrid(kind, system)

\* Database::generateNextTableId: the value is checked against the 32-bit
\* maximum before it is narrowed; the counter has been advanced by then.
generateNextTableId(system) ==
    LET r == NextTrid("Table", system) IN
    IF r.status = "ok" /\ r.id >= TableIdMax
    THEN [r EXCEPT !.status = "ResourceExhausted", !.id = 0]
    ELSE r

generateNextId(kind, system) ==
    IF kind = "Table" THEN generateNextTableId(system)
                      ELSE generateNextId64(kind, system)

\* The numeric maximum of the id type of a kind.
IdTypeMax(kind) == IF kind = "Table" THEN TableIdMax ELSE TridMax

\* The counters after an allocation ended as r.
IdStateAfter(kind, system, r) ==
    /\ m_tmpTridCounters' = [m_tmpTridCounters EXCEPT ![kind] = r.tmp]
    /\ m_lastSystemTrid' = [m_lastSystemTrid EXCEPT ![kind] = r.sys]
    /\ m_lastUserTrid' = [m_lastUserTrid EXCEPT ![kind] = r.usr]

\* The history of the allocations made by direct calls of generateNext*Id.
IdHistoryAfter(kind, system, r) ==
    /\ minted' = IF r.status = "ok" THEN minted \cup {<<kind, system, r.id>>}
                                    ELSE minted
    /\ lastAlloc' = [kind |-> kind, system |-> system, status |-> r.status,
                     id |-> r.id, exact |-> r.exact,
                     bootstrap |-> kind \notin m_sysTables,
                     tick |-> 1 - lastAlloc.tick]

NoAlloc == [kind |-> "none", system |-> FALSE, status |-> "none", id |-> 0,
            exact |-> 0, bootstrap |-> FALSE, tick |-> 0]

IdInit ==
    /\ m_tmpTridCounters = [k \in Kinds |-> 0]
    /\ m_sysTables = {}
    /\ m_lastSystemTrid = [k \in Kinds |-> 0]
    /\ m_lastUserTrid = [k \in Kinds |-> 0]
    /\ minted = {}
    /\ lastAlloc = NoAlloc

\* An operation of the identifier service leaves the rest of the state alone.
IdOnly == UNCHANGED <<relVars, cdVars, cutVars, catVars, dirVars, regVars, outerVars>>

\* The kinds other than kind have not been used yet: a behaviour of the
\* identifier service exercises one kind.
OnlyKind(kind) ==
    /\ m_sysTables \subseteq {kind}
    /\ \A m \in minted : m[1] = kind
    /\ lastAlloc.kind \in {"none", kind}

\* A call of generateNext<kind>Id(system).  On the user branch the system
\* table is dereferenced unconditionally; callers use that branch only when
\* the table is present.
GenerateNextId(kind, system) ==
    /\ OnlyKind(kind)
    /\ system \/ kind \in m_sysTables
    /\ IdStateAfter(kind, system, generateNextId(kind, system))
    /\ IdHistoryAfter(kind, system, generateNextId(kind, system))
    /\ UNCHANGED m_sysTables
    /\ IdOnly

\* The handover: the kind's system table becomes available; its row-id
\* counters continue from the ids minted during bootstrap.
LoadSystemTable(kind) ==
    /\ OnlyKind(kind)
    /\ kind \notin m_sysTables
    /\ m_sysTables' = m_sysTables \cup {kind}
    /\ m_lastSystemTrid' = [m_lastSystemTrid EXCEPT ![kind] = m_tmpTridCounters[kind]]
    /\ m_lastUserTrid' = [m_lastUserTrid EXCEPT ![kind] = FirstUserTrid(kind) - 1]
    /\ UNCHANGED <<m_tmpTridCounters, minted, lastAlloc>>
    /\ IdOnly

IdNext ==
    \/ \E kind \in Kinds, system \in BOOLEAN : GenerateNextId(kind, system)
    \/ \E kind \in Kinds : LoadSystemTable(kind)

-----------------------------------------------------------------------------
(* Database::release()                                                     *)

\* Number of threads that call release().
NumThreads == 3

\* Largest use count a run starts with.
MaxUseCount == 2

Threads == 1..NumThreads

\* The use count is held by other users of the database when the calls start.
RelInit(useCounts) ==
    /\ m_useCount \in useCounts
    /\ initialUseCount = m_useCount
    /\ relPc = [t \in Threads |-> "idle"]
    /\ useCount = [t \in Threads |-> 0]
    /\ desiredUseCount = [t \in Threads |-> 0]
    /\ relOutcome = [t \in Threads |-> "none"]

\* release() touches the use count only.
RelOnly == UNCHANGED <<idVars, cdVars, cutVars, catVars, dirVars, regVars, outerVars>>

\* A thread enters release().
ReleaseCall(t) ==
    /\ relPc[t] = "idle"
    /\ relPc' = [relPc EXCEPT ![t] = "load"]
    /\ UNCHANGED <<m_useCount, initialUseCount, useCount, desiredUseCount, relOutcome>>
    /\ RelOnly

\* useCount = m_useCount.load(); if (useCount == 0) throw ...;
\* desiredUseCount = useCount - 1;
ReleaseLoad(t) ==
    /\ relPc[t] = "load"
    /\ useCount' = [useCount EXCEPT ![t] = m_useCount]
    /\ IF m_useCount = 0
       THEN /\ relOutcome' = [relOutcome EXCEPT ![t] = "CannotReleaseUnusedDatabase"]
            /\ relPc' = [relPc EXCEPT ![t] = "done"]
            /\ UNCHANGED desiredUseCount
       ELSE /\ desiredUseCount' = [desiredUseCount EXCEPT ![t] = m_useCount - 1]
            /\ relPc' = [relPc EXCEPT ![t] = "cas"]
            /\ UNCHANGED relOutcome
    /\ UNCHANGED <<m_useCount, initialUseCount>>
    /\ RelOnly

\* Whether m_useCount.compare_exchange_strong(expected, desired) stores.
CompareExchangeLost(expected) == TRUE

CompareExchangeSucceeds(expected) == m_useCount = expected

\* while (!m_useCount.compare_exchange_strong(useCount, desiredUseCount));
ReleaseCompareExchange(t) ==
    /\ relPc[t] = "cas"
    /\ IF CompareExchangeSucceeds(useCount[t])
       THEN /\ m_useCount' = desiredUseCount[t]
            /\ relOutcome' = [relOutcome EXCEPT ![t] = "released"]
            /\ relPc' = [relPc EXCEPT ![t] = "done"]
            /\ UNCHANGED useCount
       ELSE /\ useCount' = [useCount EXCEPT ![t] = m_useCount]
            /\ relPc' = [relPc EXCEPT ![t] = "load"]
            /\ UNCHANGED <<m_useCount, relOutcome>>
    /\ UNCHANGED <<initialUseCount, desiredUseCount>>
    /\ RelOnly

RelNext ==
    \E t \in Threads :
        \/ ReleaseCall(t)
        \/ ReleaseLoad(t)
        \/ ReleaseCompareExchange(t)

-----------------------------------------------------------------------------
(* Constraint-definition interning                                          *)

\* Capacity of the constraint-definition cache.
CacheCapacity == 1

\* Number of values of the content hash.
HashRange == 2

ConstraintTypes == {"NotNull", "DefaultValue"}

ConstraintTypeCode(type) == IF type = "NotNull" THEN 0 ELSE 1

\* Constraint expressions: constants.
Expressions == {[m_type |-> "Constant", m_value |-> v] : v \in {0, 1}}

\* Expression::serializeUnchecked: the expression type tag, then the value.
Serialize(expression) == <<1, expression.m_value>>

\* Expression::deserialize: reads the tag, then the value.
Deserialize(bytes) ==
    IF Len(bytes) = 2 /\ bytes[1] = 1
    THEN [m_type |-> "Constant", m_value |-> bytes[2]]
    ELSE [m_type |-> "Invalid", m_value |-> 0]

RECURSIVE SumBytes(_)
SumBytes(bytes) == IF bytes = <<>> THEN 0 ELSE Head(bytes) + SumBytes(Tail(bytes))

\* ConstraintDefinitionRecord::computeHash(type, serializedExpression).
computeHash(type, bytes) == (ConstraintTypeCode(type) + SumBytes(bytes)) % HashRange

\* ConstraintDefinitionRecord(id, type, expression): the hash is computed
\* by the constructor.
ConstraintDefinitionRecord(id, type, bytes) ==
    [m_id |-> id, m_type |-> type, m_expression |-> bytes,
     m_hash |-> computeHash(type, bytes)]

\* m_constraintDefinitionRegistry.byHash().equal_range(hash)
byHash(hash) == {r \in m_constraintDefinitionRegistry : r.m_hash = hash}

\* ConstraintDefinitionRecord::isEqualDefinition
isEqualDefinition(r, other) ==
    r.m_type = other.m_type /\ r.m_expression = other.m_expression

\* The records createConstraintDefinitionUnlocked accepts in the bucket.
CreateMatches(system, type, bytes) ==
    LET constraintDefinitionRecord == ConstraintDefinitionRecord(0, type, bytes) IN
    {r \in byHash(constraintDefinitionRecord.m_hash) :
        /\ (r.m_id < kFirstUserTableConstraintDefinitionId) = system
        /\ isEqualDefinition(r, constraintDefinitionRecord)}

\* The records findOrCreateConstraintDefinition accepts in the bucket.
FindMatches(system, type, serializedExpression) ==
    {r \in byHash(computeHash(type, serializedExpression)) :
        /\ r.m_type = type
        /\ r.m_expression = serializedExpression
        /\ \/ system /\ r.m_id < kFirstUserTableConstraintDefinitionId
           \/ ~system /\ r.m_id >= kFirstUserTableConstraintDefinitionId}

\* The LRU cache: get() moves a hit to the most recently used end.
InCache(cache, id) == \E i \in 1..Len(cache) : cache[i] = id

CacheWithout(cache, id) == SelectSeq(cache, LAMBDA x : x # id)

CacheGet(cache, id) ==
    IF InCache(cache, id) THEN Append(CacheWithout(cache, id), id) ELSE cache

\* The LRU cache: emplace() inserts and evicts the least recently used
\* entry when the cache is at capacity; a key already present stays.
CacheEmplace(cache, id) ==
    IF InCache(cache, id) THEN cache
    ELSE IF Len(cache) >= CacheCapacity THEN Append(Tail(cache), id)
    ELSE Append(cache, id)

\* Registry insert: refused when the unique id index holds the id.
RegistryHasId(id) == \E r \in m_constraintDefinitionRegistry : r.m_id = id

CdThreads == {1, 2}

\* Number of calls a run makes.
MaxCdCalls == 4

Calls == [op : {"createConstraintDefinition", "findOrCreateConstraintDefinition"},
          system : BOOLEAN, type : ConstraintTypes, expression : Expressions]

NoCall == [op |-> "none", system |-> FALSE, type |-> "NotNull",
           expression |-> [m_type |-> "Constant", m_value |-> 0]]

NoResult == [status |-> "none", id |-> 0, existing |-> FALSE, added |-> 0]

CdInit ==
    /\ m_mutex = 0
    /\ m_constraintDefinitionRegistry = {}
    /\ m_constraintDefinitionCache = <<>>
    /\ cdPc = [t \in CdThreads |-> "idle"]
    /\ cdCall = [t \in CdThreads |-> NoCall]
    /\ cdResult = [t \in CdThreads |-> NoResult]
    /\ createdBy = {}
    /\ cdCalls = 0

\* The operations on constraint definitions leave the use count alone.
CdOnly == UNCHANGED <<relVars, cutVars, catVars, dirVars, regVars, outerVars>>

\* Whether std::lock_guard lock(m_mutex) can be passed.
MutexFree == m_mutex = 0

\* A thread enters createConstraintDefinition or
\* findOrCreateConstraintDefinition and acquires the mutex.  The user branch
\* of the allocator dereferences the system table, which callers ensure is
\* loaded.
CdLock(t, call) ==
    /\ cdPc[t] = "idle"
    /\ cdCalls < MaxCdCalls
    /\ cdCalls' = cdCalls + 1
    /\ MutexFree
    /\ call.system \/ "ConstraintDefinition" \in m_sysTables
    /\ m_mutex' = t
    /\ cdPc' = [cdPc EXCEPT ![t] = "scan"]
    /\ cdCall' = [cdCall EXCEPT ![t] = call]
    /\ UNCHANGED <<m_constraintDefinitionRegistry, m_constraintDefinitionCache,
                   cdResult, createdBy>>
    /\ UNCHANGED idVars
    /\ CdOnly

\* createConstraintDefinitionUnlocked, the search: on a match the cache is
\* asked for constraintDefinitionRecord.m_id, the id of the search key, which
\* is 0; when that misses the matching record is loaded and cached.
CreateScan(t) ==
    /\ cdPc[t] = "scan"
    /\ cdCall[t].op = "createConstraintDefinition"
    /\ LET c == cdCall[t]
           matches == CreateMatches(c.system, c.type, Serialize(c.expression)) IN
       IF matches = {}
       THEN /\ cdPc' = [cdPc EXCEPT ![t] = "new"]
            /\ UNCHANGED <<m_constraintDefinitionCache, cdResult>>
       ELSE \E r \in matches :
            /\ cdPc' = [cdPc EXCEPT ![t] = "unlock"]
            /\ IF InCache(m_constraintDefinitionCache, 0)
               THEN /\ m_constraintDefinitionCache' = CacheGet(m_constraintDefinitionCache, 0)
                    /\ cdResult' = [cdResult EXCEPT ![t] =
                           [status |-> "ok", id |-> 0, existing |-> TRUE, added |-> 0]]
               ELSE /\ m_constraintDefinitionCache' =
                           CacheEmplace(m_constraintDefinitionCache, r.m_id)
                    /\ cdResult' = [cdResult EXCEPT ![t] =
                           [status |-> "ok", id |-> r.m_id, existing |-> TRUE, added |-> 0]]
    /\ UNCHANGED <<m_mutex, m_constraintDefinitionRegistry, cdCall, createdBy>>
    /\ UNCHANGED idVars
    /\ UNCHANGED cdCalls
    /\ CdOnly

\* createConstraintDefinitionUnlocked, no match: a definition is constructed
\* (its constructor takes the next id), the record gets that id and is
\* inserted into the registry.
CreateNew(t) ==
    /\ cdPc[t] = "new"
    /\ cdCall[t].op = "createConstraintDefinition"
    /\ LET c == cdCall[t]
           a == generateNextId("ConstraintDefinition", c.system)
           rec == ConstraintDefinitionRecord(a.id, c.type, Serialize(c.expression)) IN
       /\ IdStateAfter("ConstraintDefinition", c.system, a)
       /\ IF a.status # "ok"
          THEN /\ cdResult' = [cdResult EXCEPT ![t] = [NoResult EXCEPT !.status = a.status]]
               /\ UNCHANGED <<m_constraintDefinitionRegistry, createdBy>>
          ELSE IF RegistryHasId(a.id)
          THEN /\ cdResult' = [cdResult EXCEPT ![t] = [NoResult EXCEPT !.status = "AlreadyExists"]]
               /\ UNCHANGED <<m_constraintDefinitionRegistry, createdBy>>
          ELSE /\ m_constraintDefinitionRegistry' = m_constraintDefinitionRegistry \cup {rec}
               /\ createdBy' = createdBy \cup {<<a.id, c.op, c.system>>}
               /\ cdResult' = [cdResult EXCEPT ![t] =
                      [status |-> "ok", id |-> a.id, existing |-> FALSE, added |-> 1]]
    /\ cdPc' = [cdPc EXCEPT ![t] = "unlock"]
    /\ UNCHANGED <<m_mutex, m_constraintDefinitionCache, cdCall, m_sysTables, minted, lastAlloc>>
    /\ UNCHANGED cdCalls
    /\ CdOnly

\* findOrCreateConstraintDefinition, the search: a match is returned through
\* getConstraintDefinitionChecked, which takes it from the cache or loads it.
FindScan(t) ==
    /\ cdPc[t] = "scan"
    /\ cdCall[t].op = "findOrCreateConstraintDefinition"
    /\ LET c == cdCall[t]
           matches == FindMatches(c.system, c.type, Serialize(c.expression)) IN
       IF matches = {}
       THEN /\ cdPc' = [cdPc EXCEPT ![t] = "new"]
            /\ UNCHANGED <<m_constraintDefinitionCache, cdResult>>
       ELSE \E r \in matches :
            /\ cdPc' = [cdPc EXCEPT ![t] = "unlock"]
            /\ m_constraintDefinitionCache' =
                   IF InCache(m_constraintDefinitionCache, r.m_id)
                   THEN CacheGet(m_constraintDefinitionCache, r.m_id)
                   ELSE CacheEmplace(m_constraintDefinitionCache, r.m_id)
            /\ cdResult' = [cdResult EXCEPT ![t] =
                   [status |-> "ok", id |-> r.m_id, existing |-> TRUE, added |-> 0]]
    /\ UNCHANGED <<m_mutex, m_constraintDefinitionRegistry, cdCall, createdBy>>
    /\ UNCHANGED idVars
    /\ UNCHANGED cdCalls
    /\ CdOnly

\* findOrCreateConstraintDefinition, no match: the bytes are deserialized, a
\* definition is constructed, cached, and its record (which serializes the
\* definition's expression) is placed into the registry.
FindNew(t) ==
    /\ cdPc[t] = "new"
    /\ cdCall[t].op = "findOrCreateConstraintDefinition"
    /\ LET c == cdCall[t]
           expression == Deserialize(Serialize(c.expression))
           a == generateNextId("ConstraintDefinition", c.system)
           rec == ConstraintDefinitionRecord(a.id, c.type, Serialize(expression)) IN
       /\ IdStateAfter("ConstraintDefinition", c.system, a)
       /\ IF a.status # "ok"
          THEN /\ cdResult' = [cdResult EXCEPT ![t] = [NoResult EXCEPT !.status = a.status]]
               /\ UNCHANGED <<m_constraintDefinitionRegistry, m_constraintDefinitionCache,
                              createdBy>>
          ELSE /\ m_constraintDefinitionCache' =
                      CacheEmplace(m_constraintDefinitionCache, a.id)
               /\ IF RegistryHasId(a.id)
                  THEN /\ cdResult' = [cdResult EXCEPT ![t] =
                              [NoResult EXCEPT !.status = "AlreadyExists"]]
                       /\ UNCHANGED <<m_constraintDefinitionRegistry, createdBy>>
                  ELSE /\ m_constraintDefinitionRegistry' =
                              m_constraintDefinitionRegistry \cup {rec}
                       /\ createdBy' = createdBy \cup {<<a.id, c.op, c.system>>}
                       /\ cdResult' = [cdResult EXCEPT ![t] =
                              [status |-> "ok", id |-> a.id, existing |-> FALSE, added |-> 1]]
    /\ cdPc' = [cdPc EXCEPT ![t] = "unlock"]
    /\ UNCHANGED <<m_mutex, cdCall, m_sysTables, minted, lastAlloc>>
    /\ UNCHANGED cdCalls
    /\ CdOnly

\* The call returns (or raises): the lock_guard releases the mutex.
CdUnlock(t) ==
    /\ cdPc[t] = "unlock"
    /\ m_mutex' = 0
    /\ cdPc' = [cdPc EXCEPT ![t] = "idle"]
    /\ cdCall' = [cdCall EXCEPT ![t] = NoCall]
    /\ cdResult' = [cdResult EXCEPT ![t] = NoResult]
    /\ UNCHANGED <<m_constraintDefinitionRegistry, m_constraintDefinitionCache, createdBy>>
    /\ UNCHANGED idVars
    /\ UNCHANGED cdCalls
    /\ CdOnly

\* The constraint-definition system table becomes available (the handover).
CdLoadSystemTable ==
    /\ MutexFree
    /\ "ConstraintDefinition" \notin m_sysTables
    /\ m_sysTables' = m_sysTables \cup {"ConstraintDefinition"}
    /\ m_lastSystemTrid' = [m_lastSystemTrid EXCEPT
           !["ConstraintDefinition"] = m_tmpTridCounters["ConstraintDefinition"]]
    /\ m_lastUserTrid' = [m_lastUserTrid EXCEPT
           !["ConstraintDefinition"] = FirstUserTrid("ConstraintDefinition") - 1]
    /\ UNCHANGED <<m_tmpTridCounters, minted, lastAlloc>>
    /\ UNCHANGED cdVars
    /\ CdOnly

CdNext ==
    \/ \E t \in CdThreads, call \in Calls : CdLock(t, call)
    \/ \E t \in CdThreads : CreateScan(t)
    \/ \E t \in CdThreads : CreateNew(t)
    \/ \E t \in CdThreads : FindScan(t)
    \/ \E t \in CdThreads : FindNew(t)
    \/ \E t \in CdThreads : CdUnlock(t)
    \/ CdLoadSystemTable

-----------------------------------------------------------------------------
(* Database::createUserTable                                                *)

\* Largest number of column specifications in a call.
MaxColumns == 2

\* isValidDatabaseObjectName: identifiers are valid names, "1" is not.
isValidDatabaseObjectName(name) == name \in {"a", "b", "n", "T"}

TableNames == {"T"}

ColumnNames == {"a", "b", "1"}

\* ColumnConstraintSpecification: m_name (empty: a name is generated later)
\* and m_type.
ConstraintSpecs ==
    {[m_name |-> "", m_type |-> "NotNull"],
     [m_name |-> "n", m_type |-> "DefaultValue"],
     [m_name |-> "1", m_type |-> "NotNull"]}

\* The constraint lists of a column: none, one or two constraints.
ConstraintSpecLists ==
    {<<>>} \cup {<<c>> : c \in ConstraintSpecs}
           \cup {<<c, d>> : c \in ConstraintSpecs, d \in ConstraintSpecs}

\* ColumnSpecification: m_name and m_constraints.
ColumnSpecs == [m_name : ColumnNames, m_constraints : ConstraintSpecLists]

RECURSIVE SeqsUpTo(_, _)
SeqsUpTo(S, n) ==
    IF n = 0 THEN {<<>>}
    ELSE SeqsUpTo(S, n - 1)
             \cup {Append(q, x) : q \in {r \in SeqsUpTo(S, n - 1) : Len(r) = n - 1}, x \in S}

ColumnSpecBatches == SeqsUpTo(ColumnSpecs, MaxColumns)

\* The name of the database.
m_name == "db"

makeDatabaseError(code, args) == [m_errorCode |-> code, m_args |-> args]

\* The state of the validation loop: knownColumns, knownConstraints, errors
\* and, within a column, constraintCounts.
ValidationStart ==
    [knownColumns |-> {}, knownConstraints |-> {}, errors |-> <<>>,
     constraintCounts |-> [t \in ConstraintTypes |-> 0]]

\* m_constraintRegistry.byName().count(name) > 0
ConstraintNameNeverInUse(name) == FALSE

ConstraintNameInUse(name) == \E r \in m_constraintRegistry : r.m_name = name

\* One iteration of the loop over columnSpec.m_constraints.
ExamineConstraint(st, columnName, constraintSpec) ==
    LET counted == [st EXCEPT !.constraintCounts[constraintSpec.m_type] = @ + 1] IN
    IF constraintSpec.m_name = "" THEN counted
    ELSE IF ~isValidDatabaseObjectName(constraintSpec.m_name)
    THEN [counted EXCEPT !.errors =
             Append(@, makeDatabaseError("kErrorInvalidConstraintName", <<columnName>>))]
    ELSE LET afterInsert ==
                 IF constraintSpec.m_name \in counted.knownConstraints
                 THEN [counted EXCEPT !.errors = Append(@,
                          makeDatabaseError("kErrorCreateTableDuplicateConstraintName",
                                            <<constraintSpec.m_name>>))]
                 ELSE [counted EXCEPT !.knownConstraints = @ \cup {constraintSpec.m_name}]
         IN IF ConstraintNameInUse(constraintSpec.m_name)
            THEN [afterInsert EXCEPT !.errors = Append(@,
                     makeDatabaseError("kErrorConstraintAlreadyExists",
                                       <<m_name, constraintSpec.m_name>>))]
            ELSE afterInsert

RECURSIVE ExamineConstraints(_, _, _)
ExamineConstraints(st, columnName, constraints) ==
    IF constraints = <<>> THEN st
    ELSE ExamineConstraints(ExamineConstraint(st, columnName, Head(constraints)),
                            columnName, Tail(constraints))

\* The loop over constraintCounts: a type given more than once is an error.
CheckConstraintCountsSkipped(st, columnName) == st

CheckConstraintCounts(st, columnName) ==
    LET notNull ==
            IF st.constraintCounts["NotNull"] > 1
            THEN [st EXCEPT !.errors = Append(@,
                     makeDatabaseError("kErrorCreateTableDuplicateColumnConstraintType",
                                       <<"NotNull", columnName>>))]
            ELSE st
    IN IF notNull.constraintCounts["DefaultValue"] > 1
       THEN [notNull EXCEPT !.errors = Append(@,
                makeDatabaseError("kErrorCreateTableDuplicateColumnConstraintType",
                                  <<"DefaultValue", columnName>>))]
       ELSE notNull

\* One iteration of the loop over columnSpecs.
ExamineColumn(st, columnSpec) ==
    IF ~isValidDatabaseObjectName(columnSpec.m_name)
    THEN [st EXCEPT !.errors =
             Append(@, makeDatabaseError("kErrorInvalidColumnName", <<columnSpec.m_name>>))]
    ELSE IF columnSpec.m_name \in st.knownColumns
    THEN [st EXCEPT !.errors = Append(@,
             makeDatabaseError("kErrorCreateTableDuplicateColumnName", <<columnSpec.m_name>>))]
    ELSE LET inserted == [st EXCEPT !.knownColumns = @ \cup {columnSpec.m_name},
                                    !.constraintCounts = [t \in ConstraintTypes |-> 0]]
         IN CheckConstraintCounts(
                ExamineConstraints(inserted, columnSpec.m_name, columnSpec.m_constraints),
                columnSpec.m_name)

RECURSIVE ExamineColumns(_, _)
ExamineColumns(st, columnSpecs) ==
    IF columnSpecs = <<>> THEN st
    ELSE ExamineColumns(ExamineColumn(st, Head(columnSpecs)), Tail(columnSpecs))

\* The errors vector after the validation loop.
ValidationErrors(columnSpecs) == ExamineColumns(ValidationStart, columnSpecs).errors

NoCutCall == [name |-> "", type |-> "kDisk", columnSpecs |-> <<>>]

NoCutResult == [status |-> "none", errors |-> <<>>]

\* The registries of an open database; "n" may name a constraint already.
CutInit(constraintNames) ==
    /\ m_tableRegistry = {}
    /\ m_tableCache = <<>>
    /\ m_columnRegistry = {}
    /\ m_constraintRegistry \in
           {{}, {[m_id |-> 1, m_name |-> n] : n \in constraintNames}}
    /\ cutPc = "idle"
    /\ cutCall = NoCutCall
    /\ cutResult = NoCutResult

\* createUserTable leaves the use count and the constraint definitions alone.
CutOnly ==
    UNCHANGED <<relVars, m_constraintDefinitionRegistry, m_constraintDefinitionCache,
                cdPc, cdCall, cdResult, createdBy, cdCalls, minted, lastAlloc, catVars,
                dirVars, regVars, outerVars>>

\* if (type != TableType::kDisk) throw: raised before the mutex is taken.
CutTypeNotSupported(name) ==
    /\ cutPc = "idle"
    /\ cutPc' = "done"
    /\ cutCall' = [name |-> name, type |-> "kMemory", columnSpecs |-> <<>>]
    /\ cutResult' = [status |-> "TableTypeNotSupported", errors |-> <<>>]
    /\ UNCHANGED <<m_tableRegistry, m_tableCache, m_columnRegistry, m_constraintRegistry>>
    /\ UNCHANGED <<m_mutex, m_tmpTridCounters, m_sysTables, m_lastSystemTrid, m_lastUserTrid>>
    /\ CutOnly

\* What the validation phase does to the catalog: nothing.
ValidationRegistersTable(name) ==
    /\ m_tableRegistry' = m_tableRegistry \cup {[m_id |-> TableIdMax, m_name |-> name]}
    /\ UNCHANGED <<m_tableCache, m_columnRegistry, m_constraintRegistry>>
    /\ UNCHANGED <<m_tmpTridCounters, m_sysTables, m_lastSystemTrid, m_lastUserTrid>>

ValidationEffects(name) ==
    /\ UNCHANGED <<m_tableRegistry, m_tableCache, m_columnRegistry, m_constraintRegistry>>
    /\ UNCHANGED <<m_tmpTridCounters, m_sysTables, m_lastSystemTrid, m_lastUserTrid>>

\* createUserTable up to the throw of the CompoundDatabaseError: the mutex is
\* taken, every column specification is examined, and the errors collected
\* are raised together; with no error the call goes on to create the table.
CutValidate ==
    /\ cutPc = "idle"
    /\ MutexFree
    /\ \E name \in TableNames, columnSpecs \in ColumnSpecBatches :
          /\ cutCall' = [name |-> name, type |-> "kDisk", columnSpecs |-> columnSpecs]
          /\ LET errors == ValidationErrors(columnSpecs) IN
             IF errors # <<>>
             THEN /\ cutResult' = [status |-> "CompoundDatabaseError", errors |-> errors]
                  /\ cutPc' = "done"
                  /\ UNCHANGED m_mutex
             ELSE /\ cutResult' = NoCutResult
                  /\ cutPc' = "createTable"
                  /\ m_mutex' = 1
          /\ ValidationEffects(name)
    /\ CutOnly

\* The call raises: the lock_guard releases the mutex.
CutRaise(status) ==
    /\ cutResult' = [status |-> status, errors |-> <<>>]
    /\ cutPc' = "done"
    /\ m_mutex' = 0

\* Registry insert: fails with AlreadyExists when a unique index (id, name)
\* of the registry holds the key of the record.
RegistryHasKey(registry, record) ==
    \E r \in registry : r.m_id = record.m_id \/ r.m_name = record.m_name

\* m_tableRegistry.byName().count(name) > 0
TableNameNeverRegistered(name) == FALSE

TableNameRegistered(name) == \E r \in m_tableRegistry : r.m_name = name

\* createTableUnlocked(name, type, firstUserTrid): a registered name is
\* refused; the Table is constructed (it takes the next user table id and
\* creates its master column), registered and put into the table cache.
\* The value describes the outcome and the state it leaves.
createTableUnlocked(name) ==
    LET tableId == generateNextTableId(FALSE)
        columnId == generateNextId64("Column", FALSE)
        same == [status |-> "ok", id |-> 0,
                 tableRegistry |-> m_tableRegistry, tableCache |-> m_tableCache,
                 columnRegistry |-> m_columnRegistry, lastUserTrid |-> m_lastUserTrid]
        tableTaken == [m_lastUserTrid EXCEPT !["Table"] = tableId.usr]
        record == [m_id |-> tableId.id, m_name |-> name] IN
    IF TableNameRegistered(name)
    THEN [same EXCEPT !.status = "TableAlreadyExists"]
    ELSE IF tableId.status # "ok"
    THEN [same EXCEPT !.status = tableId.status, !.lastUserTrid = tableTaken]
    ELSE IF columnId.status # "ok"
    THEN [same EXCEPT !.status = columnId.status, !.lastUserTrid = tableTaken]
    ELSE IF RegistryHasKey(m_tableRegistry, record)
    THEN [same EXCEPT !.status = "AlreadyExists",
                      !.lastUserTrid = [tableTaken EXCEPT !["Column"] = columnId.usr],
                      !.columnRegistry = m_columnRegistry \cup
                          {[m_id |-> columnId.id, m_table |-> tableId.id, m_name |-> "TRID"]}]
    ELSE [status |-> "ok", id |-> tableId.id,
          tableRegistry |-> m_tableRegistry \cup {record},
          tableCache |-> CacheEmplace(m_tableCache, tableId.id),
          columnRegistry |-> m_columnRegistry \cup
              {[m_id |-> columnId.id, m_table |-> tableId.id, m_name |-> "TRID"]},
          lastUserTrid |-> [tableTaken EXCEPT !["Column"] = columnId.usr]]

\* createTable(name, type, 0) within createUserTable.
CutCreateTable ==
    /\ cutPc = "createTable"
    /\ LET r == createTableUnlocked(cutCall.name) IN
       /\ m_tableRegistry' = r.tableRegistry
       /\ m_tableCache' = r.tableCache
       /\ m_columnRegistry' = r.columnRegistry
       /\ m_lastUserTrid' = r.lastUserTrid
       /\ IF r.status = "ok"
          THEN /\ cutPc' = "createColumn"
               /\ UNCHANGED <<cutResult, m_mutex>>
          ELSE CutRaise(r.status)
    /\ UNCHANGED <<m_constraintRegistry, cutCall, m_sysTables,
                   m_tmpTridCounters, m_lastSystemTrid>>
    /\ CutOnly

\* The column specifications that have no column yet.
ColumnsCreated ==
    Cardinality({r \in m_columnRegistry :
                    /\ r.m_name # "TRID"
                    /\ \E t \in m_tableRegistry : t.m_name = cutCall.name /\ t.m_id = r.m_table})

\* The constraint records of a column: one for each constraint specification,
\* with consecutive ids; a record of a constraint without a name carries the
\* empty name, which stands for the name generated for it.
ConstraintRecords(constraints, lastId) ==
    {[m_id |-> lastId + j, m_name |-> constraints[j].m_name] : j \in 1..Len(constraints)}

\* table->createColumn(columnSpec): takes the next user column id and one
\* constraint id for each constraint, registers the column and the constraints.
CutCreateColumn ==
    /\ cutPc = "createColumn"
    /\ ColumnsCreated < Len(cutCall.columnSpecs)
    /\ LET columnSpec == cutCall.columnSpecs[ColumnsCreated + 1]
           columnId == generateNextId64("Column", FALSE)
           table == CHOOSE t \in m_tableRegistry : t.m_name = cutCall.name
           lastId == m_lastUserTrid["Constraint"]
           n == Len(columnSpec.m_constraints) IN
       IF columnId.status # "ok"
       THEN /\ CutRaise(columnId.status)
            /\ UNCHANGED <<m_columnRegistry, m_constraintRegistry, m_lastUserTrid>>
       ELSE IF lastId + n > TridMax
       THEN /\ CutRaise("ResourceExhausted")
            /\ m_columnRegistry' = m_columnRegistry \cup
                   {[m_id |-> columnId.id, m_table |-> table.m_id,
                     m_name |-> columnSpec.m_name]}
            /\ m_constraintRegistry' = m_constraintRegistry \cup
                   ConstraintRecords(SubSeq(columnSpec.m_constraints, 1, TridMax - lastId),
                                     lastId)
            /\ m_lastUserTrid' = [m_lastUserTrid EXCEPT !["Column"] = columnId.usr,
                                                        !["Constraint"] = TridMax]
       ELSE /\ m_columnRegistry' = m_columnRegistry \cup
                   {[m_id |-> columnId.id, m_table |-> table.m_id,
                     m_name |-> columnSpec.m_name]}
            /\ m_constraintRegistry' = m_constraintRegistry \cup
                   ConstraintRecords(columnSpec.m_constraints, lastId)
            /\ m_lastUserTrid' = [m_lastUserTrid EXCEPT !["Column"] = columnId.usr,
                                                        !["Constraint"] = lastId + n]
            /\ UNCHANGED <<cutPc, cutResult, m_mutex>>
    /\ UNCHANGED <<m_tableRegistry, m_tableCache, cutCall,
                   m_tmpTridCounters, m_sysTables, m_lastSystemTrid>>
    /\ CutOnly

\* closeCurrentColumnSet, generateNextTransactionId and recordTableDefinition
\* succeed: the table is returned.
CutRecordTableDefinition ==
    /\ cutPc = "createColumn"
    /\ ColumnsCreated = Len(cutCall.columnSpecs)
    /\ CutRaise("ok")
    /\ UNCHANGED <<m_tableRegistry, m_tableCache, m_columnRegistry, m_constraintRegistry,
                   cutCall, m_tmpTridCounters, m_sysTables, m_lastSystemTrid, m_lastUserTrid>>
    /\ CutOnly

\* recordTableDefinition fails to write the system tables and raises.
CutRecordTableDefinitionFails ==
    /\ cutPc = "createColumn"
    /\ ColumnsCreated = Len(cutCall.columnSpecs)
    /\ CutRaise("IOError")
    /\ UNCHANGED <<m_tableRegistry, m_tableCache, m_columnRegistry, m_constraintRegistry,
                   cutCall, m_tmpTridCounters, m_sysTables, m_lastSystemTrid, m_lastUserTrid>>
    /\ CutOnly

CutNext ==
    \/ \E name \in TableNames : CutTypeNotSupported(name)
    \/ CutValidate
    \/ CutCreateTable
    \/ CutCreateColumn
    \/ CutRecordTableDefinition
    \/ CutRecordTableDefinitionFails

-----------------------------------------------------------------------------
(* Catalog calls made by several threads                                    *)

CatThreads == {1, 2}

\* Largest number of catalog calls started in a behaviour.
MaxCatCalls == 3

NoCatCall == [op |-> "none", name |-> "", id |-> 0, database |-> "this",
              columnOf |-> "absent", type |-> "NotNull", registered |-> FALSE]

NoCatResult == [status |-> "none", id |-> 0]

\* No catalog call is in progress; the second database may hold constraints.
CatInit(otherNames) ==
    /\ catPc = [t \in CatThreads |-> "idle"]
    /\ catCall = [t \in CatThreads |-> NoCatCall]
    /\ catResult = [t \in CatThreads |-> NoCatResult]
    /\ catCalls = 0
    /\ otherConstraintRegistry \in
           {{}, {[m_id |-> 1, m_name |-> n] : n \in otherNames}}

\* What a catalog call on tables leaves alone.
TabOnly ==
    UNCHANGED <<relVars, m_constraintDefinitionRegistry, m_constraintDefinitionCache,
                cdPc, cdCall, cdResult, createdBy, cdCalls, minted, lastAlloc,
                m_tmpTridCounters, m_sysTables, m_lastSystemTrid,
                m_constraintRegistry, cutPc, cutCall, cutResult,
                otherConstraintRegistry, dirVars, regVars, outerVars>>

\* A thread calls an operation: it goes on to wait for the mutex.
CatEnter(t, call) ==
    /\ catPc[t] = "idle"
    /\ catCalls < MaxCatCalls
    /\ catCalls' = catCalls + 1
    /\ catPc' = [catPc EXCEPT ![t] = "lock"]
    /\ catCall' = [catCall EXCEPT ![t] = call]
    /\ UNCHANGED catResult

\* The step of a locked operation that ends with the result.
CatFinish(t, status, id) ==
    /\ catPc' = [catPc EXCEPT ![t] = "unlock"]
    /\ catResult' = [catResult EXCEPT ![t] = [status |-> status, id |-> id]]
    /\ UNCHANGED <<catCall, catCalls, m_mutex>>

\* std::lock_guard lock(m_mutex)
CatLock(t) ==
    /\ catPc[t] = "lock"
    /\ MutexFree
    /\ m_mutex' = t
    /\ catPc' = [catPc EXCEPT ![t] = "locked"]
    /\ UNCHANGED <<catCall, catResult, catCalls>>
    /\ UNCHANGED <<m_tableRegistry, m_tableCache, m_columnRegistry, m_lastUserTrid>>
    /\ TabOnly

\* The call returns or raises: the lock_guard releases the mutex.
CatUnlock(t) ==
    /\ catPc[t] = "unlock"
    /\ m_mutex' = 0
    /\ catPc' = [catPc EXCEPT ![t] = "done"]
    /\ UNCHANGED <<catCall, catResult, catCalls>>
    /\ UNCHANGED <<m_tableRegistry, m_tableCache, m_columnRegistry, m_lastUserTrid>>
    /\ TabOnly

\* The caller has taken the result and is ready for its next call.
CatReturn(t) ==
    /\ catPc[t] = "done"
    /\ catPc' = [catPc EXCEPT ![t] = "idle"]
    /\ catCall' = [catCall EXCEPT ![t] = NoCatCall]
    /\ catResult' = [catResult EXCEPT ![t] = NoCatResult]
    /\ UNCHANGED <<catCalls, m_mutex>>
    /\ UNCHANGED <<m_tableRegistry, m_tableCache, m_columnRegistry, m_lastUserTrid>>
    /\ TabOnly

-----------------------------------------------------------------------------
(* Table creation and lookup                                                *)

TabNames == {"T", "U"}

\* The table ids a lookup is made with.
TabIds == 1..TableIdMax

\* createTable(name, type, firstUserTrid) is called.
CreateTableCall(t, name) ==
    /\ CatEnter(t, [NoCatCall EXCEPT !.op = "createTable", !.name = name,
                                     !.registered =
                                         \E r \in m_tableRegistry : r.m_name = name])
    /\ UNCHANGED <<m_mutex, m_tableRegistry, m_tableCache, m_columnRegistry, m_lastUserTrid>>
    /\ TabOnly

\* createTableUnlocked under the mutex.
CreateTableLocked(t) ==
    /\ catPc[t] = "locked"
    /\ catCall[t].op = "createTable"
    /\ LET r == createTableUnlocked(catCall[t].name) IN
       /\ m_tableRegistry' = r.tableRegistry
       /\ m_tableCache' = r.tableCache
       /\ m_columnRegistry' = r.columnRegistry
       /\ m_lastUserTrid' = r.lastUserTrid
       /\ CatFinish(t, r.status, r.id)
    /\ TabOnly

\* getTableChecked(tableName) is called.
GetTableByNameCall(t, name) ==
    /\ CatEnter(t, [NoCatCall EXCEPT !.op = "getTableCheckedByName", !.name = name])
    /\ UNCHANGED <<m_mutex, m_tableRegistry, m_tableCache, m_columnRegistry, m_lastUserTrid>>
    /\ TabOnly

\* getTableChecked(tableId) is called.
GetTableByIdCall(t, id) ==
    /\ CatEnter(t, [NoCatCall EXCEPT !.op = "getTableCheckedById", !.id = id])
    /\ UNCHANGED <<m_mutex, m_tableRegistry, m_tableCache, m_columnRegistry, m_lastUserTrid>>
    /\ TabOnly

\* loadTableUnlocked: the table is constructed from its record and put into
\* the table cache under its id.
loadTableUnlockedUnderZero(tableRecord) == CacheEmplace(m_tableCache, 0)

loadTableUnlocked(tableRecord) == CacheEmplace(m_tableCache, tableRecord.m_id)

getTableUnlockedNotCaching(found) ==
    IF found = {} THEN [status |-> "TableDoesNotExist", id |-> 0, tableCache |-> m_tableCache]
    ELSE [status |-> "ok", id |-> (CHOOSE r \in found : TRUE).m_id,
          tableCache |-> m_tableCache]

\* getTableUnlocked on the record found, or not, in an index: a cached table
\* is returned (and becomes the most recently used), otherwise
\* loadTableUnlocked constructs the table from the record and caches it.
getTableUnlocked(found) ==
    IF found = {} THEN [status |-> "TableDoesNotExist", id |-> 0, tableCache |-> m_tableCache]
    ELSE LET record == CHOOSE r \in found : TRUE IN
         IF InCache(m_tableCache, record.m_id)
         THEN [status |-> "ok", id |-> record.m_id,
               tableCache |-> CacheGet(m_tableCache, record.m_id)]
         ELSE [status |-> "ok", id |-> record.m_id,
               tableCache |-> loadTableUnlocked(record)]

\* getTableChecked(tableName) under the mutex.
GetTableByNameLocked(t) ==
    /\ catPc[t] = "locked"
    /\ catCall[t].op = "getTableCheckedByName"
    /\ LET r == getTableUnlocked({x \in m_tableRegistry : x.m_name = catCall[t].name}) IN
       /\ m_tableCache' = r.tableCache
       /\ CatFinish(t, r.status, r.id)
    /\ UNCHANGED <<m_tableRegistry, m_columnRegistry, m_lastUserTrid>>
    /\ TabOnly

\* getTableChecked(tableId) under the mutex.
GetTableByIdLocked(t) ==
    /\ catPc[t] = "locked"
    /\ catCall[t].op = "getTableCheckedById"
    /\ LET r == getTableUnlocked({x \in m_tableRegistry : x.m_id = catCall[t].id}) IN
       /\ m_tableCache' = r.tableCache
       /\ CatFinish(t, r.status, r.id)
    /\ UNCHANGED <<m_tableRegistry, m_columnRegistry, m_lastUserTrid>>
    /\ TabOnly

TabNext ==
    \/ \E t \in CatThreads, name \in TabNames : CreateTableCall(t, name)
    \/ \E t \in CatThreads, name \in TabNames : GetTableByNameCall(t, name)
    \/ \E t \in CatThreads, id \in TabIds : GetTableByIdCall(t, id)
    \/ \E t \in CatThreads : CatLock(t)
    \/ \E t \in CatThreads : CreateTableLocked(t)
    \/ \E t \in CatThreads : GetTableByNameLocked(t)
    \/ \E t \in CatThreads : GetTableByIdLocked(t)
    \/ \E t \in CatThreads : CatUnlock(t)
    \/ \E t \in CatThreads : CatReturn(t)

-----------------------------------------------------------------------------
(* Database::createConstraint                                               *)

ConNames == {"n", "m"}

\* The types of constraint definitions: two are supported, "Check" stands for
\* the others.
ConstraintDefinitionTypes == ConstraintTypes \cup {"Check"}

\* The column argument: absent (a null pointer), a column of the table, or a
\* column of another table.
ColumnArgs == {"absent", "own", "foreign"}

\* What createConstraint leaves alone.
ConOnly ==
    UNCHANGED <<relVars, m_constraintDefinitionRegistry, m_constraintDefinitionCache,
                cdPc, cdCall, cdResult, createdBy, cdCalls, minted, lastAlloc,
                m_tmpTridCounters, m_sysTables, m_lastSystemTrid,
                m_tableRegistry, m_tableCache, m_columnRegistry,
                cutPc, cutCall, cutResult, otherConstraintRegistry, dirVars, regVars,
                outerVars>>

\* checkTableBelongsToThisDatabase: &table.getDatabase() == this.
TableAlwaysBelongs(database) == TRUE

checkTableBelongsToThisDatabase(database) == database = "this"

\* index.find(name) != index.cend()
ConstraintNameNeverFound(name) == FALSE

ConstraintNameFound(name) == \E r \in m_constraintRegistry : r.m_name = name

\* createConstraint is called: the table and the column are validated before
\* the mutex is taken; a failed check raises at once.
CreateConstraintCall(t, database, column, name, type) ==
    /\ catPc[t] = "idle"
    /\ catCalls < MaxCatCalls
    /\ catCalls' = catCalls + 1
    /\ catCall' = [catCall EXCEPT ![t] =
           [op |-> "createConstraint", name |-> name, id |-> 0, database |-> database,
            columnOf |-> column, type |-> type,
            registered |-> \E r \in m_constraintRegistry : r.m_name = name]]
    /\ IF ~checkTableBelongsToThisDatabase(database)
       THEN /\ catPc' = [catPc EXCEPT ![t] = "done"]
            /\ catResult' = [catResult EXCEPT ![t] =
                   [status |-> "TableDoesNotBelongToDatabase", id |-> 0]]
       ELSE IF column = "foreign"
       THEN /\ catPc' = [catPc EXCEPT ![t] = "done"]
            /\ catResult' = [catResult EXCEPT ![t] =
                   [status |-> "ColumnDoesNotBelongToTable", id |-> 0]]
       ELSE /\ catPc' = [catPc EXCEPT ![t] = "lock"]
            /\ UNCHANGED catResult
    /\ UNCHANGED <<m_mutex, m_constraintRegistry, m_lastUserTrid>>
    /\ ConOnly

\* std::lock_guard lock(m_mutex) in createConstraint.
CreateConstraintLock(t) ==
    /\ catPc[t] = "lock"
    /\ catCall[t].op = "createConstraint"
    /\ MutexFree
    /\ m_mutex' = t
    /\ catPc' = [catPc EXCEPT ![t] = "locked"]
    /\ UNCHANGED <<catCall, catResult, catCalls, m_constraintRegistry, m_lastUserTrid>>
    /\ ConOnly

\* The constraint is constructed (it takes the next user constraint id) and
\* emplaced into the registry.
RegisterNewConstraint(t) ==
    LET constraintId == generateNextId64("Constraint", FALSE)
        record == [m_id |-> constraintId.id, m_name |-> catCall[t].name] IN
    IF constraintId.status # "ok"
    THEN /\ CatFinish(t, constraintId.status, 0)
         /\ UNCHANGED <<m_constraintRegistry, m_lastUserTrid>>
    ELSE IF RegistryHasKey(m_constraintRegistry, record)
    THEN /\ CatFinish(t, "AlreadyExists", 0)
         /\ m_lastUserTrid' = [m_lastUserTrid EXCEPT !["Constraint"] = constraintId.usr]
         /\ UNCHANGED m_constraintRegistry
    ELSE /\ CatFinish(t, "ok", constraintId.id)
         /\ m_lastUserTrid' = [m_lastUserTrid EXCEPT !["Constraint"] = constraintId.usr]
         /\ m_constraintRegistry' = m_constraintRegistry \cup {record}

\* The column is dereferenced: the switch reaches a constructor call with
\* *column.
DereferencesColumn(t) ==
    /\ ~ConstraintNameFound(catCall[t].name)
    /\ catCall[t].type \in {"NotNull", "DefaultValue"}

\* createConstraint under the mutex, the column given or not dereferenced.
CreateConstraintLocked(t) ==
    /\ catPc[t] = "locked"
    /\ catCall[t].op = "createConstraint"
    /\ ~(DereferencesColumn(t) /\ catCall[t].columnOf = "absent")
    /\ IF ConstraintNameFound(catCall[t].name)
       THEN /\ CatFinish(t, "ConstraintAlreadyExists", 0)
            /\ UNCHANGED <<m_constraintRegistry, m_lastUserTrid>>
       ELSE IF catCall[t].type \notin {"NotNull", "DefaultValue"}
       THEN /\ CatFinish(t, "ConstraintNotSupported", 0)
            /\ UNCHANGED <<m_constraintRegistry, m_lastUserTrid>>
       ELSE RegisterNewConstraint(t)
    /\ ConOnly

\* createConstraint without a column reaches *column: the behaviour is
\* undefined.  One outcome: the constructor runs on the null reference
\* without faulting and the constraint is registered.
CreateConstraintNullColumnGoesOn(t) ==
    /\ catPc[t] = "locked"
    /\ catCall[t].op = "createConstraint"
    /\ DereferencesColumn(t) /\ catCall[t].columnOf = "absent"
    /\ RegisterNewConstraint(t)
    /\ ConOnly

\* The other outcome: the access faults and the process is killed; the
\* thread never returns and the mutex is never released.
CreateConstraintNullColumnFaults(t) ==
    /\ catPc[t] = "locked"
    /\ catCall[t].op = "createConstraint"
    /\ DereferencesColumn(t) /\ catCall[t].columnOf = "absent"
    /\ catPc' = [catPc EXCEPT ![t] = "faulted"]
    /\ UNCHANGED <<catCall, catResult, catCalls, m_mutex, m_constraintRegistry,
                   m_lastUserTrid>>
    /\ ConOnly

\* The lock_guard of createConstraint releases the mutex.
CreateConstraintUnlock(t) ==
    /\ catPc[t] = "unlock"
    /\ catCall[t].op = "createConstraint"
    /\ m_mutex' = 0
    /\ catPc' = [catPc EXCEPT ![t] = "done"]
    /\ UNCHANGED <<catCall, catResult, catCalls, m_constraintRegistry, m_lastUserTrid>>
    /\ ConOnly

\* The caller of createConstraint has taken the result.
CreateConstraintReturn(t) ==
    /\ catPc[t] = "done"
    /\ catCall[t].op = "createConstraint"
    /\ catPc' = [catPc EXCEPT ![t] = "idle"]
    /\ catCall' = [catCall EXCEPT ![t] = NoCatCall]
    /\ catResult' = [catResult EXCEPT ![t] = NoCatResult]
    /\ UNCHANGED <<catCalls, m_mutex, m_constraintRegistry, m_lastUserTrid>>
    /\ ConOnly

ConNext ==
    \/ \E t \in CatThreads, database \in {"this", "other"}, column \in ColumnArgs,
          name \in ConNames, type \in ConstraintDefinitionTypes :
              CreateConstraintCall(t, database, column, name, type)
    \/ \E t \in CatThreads : CreateConstraintLock(t)
    \/ \E t \in CatThreads : CreateConstraintLocked(t)
    \/ \E t \in CatThreads : CreateConstraintNullColumnGoesOn(t)
    \/ \E t \in CatThreads : CreateConstraintNullColumnFaults(t)
    \/ \E t \in CatThreads : CreateConstraintUnlock(t)
    \/ \E t \in CatThreads : CreateConstraintReturn(t)

-----------------------------------------------------------------------------
(* Database::ensureDataDir and Database::createInitializationFlagFile       *)

\* Largest number of files, other than the initialization flag file, that a
\* data directory holds.
MaxDataDirFiles == 2

\* What the file system holds of the database.
DirState == [dataDirExists |-> dataDirExists, dataDirFiles |-> dataDirFiles,
             initFlagFile |-> initFlagFile]

NoDirState == [dataDirExists |-> FALSE, dataDirFiles |-> 0, initFlagFile |-> "absent"]

NoDirCall == [op |-> "none", create |-> FALSE, initFlagFileExists |-> FALSE,
              before |-> NoDirState]

NoDirResult == [op |-> "none", create |-> FALSE, status |-> "none",
                before |-> NoDirState]

\* No call is in progress and no initialization flag file has been made; the
\* data directory is absent or is left over, with some files, from an attempt
\* that did not get to the flag file.
DirInit(exists) ==
    /\ dataDirExists \in exists
    /\ dataDirFiles \in (IF dataDirExists THEN 0..MaxDataDirFiles ELSE {0})
    /\ initFlagFile = "absent"
    /\ dirPc = "idle"
    /\ dirCall = NoDirCall
    /\ dirResult = NoDirResult
    /\ flagFileCompleted = FALSE
    /\ flagFileRaised = FALSE

DirOnly == UNCHANGED <<idVars, relVars, cdVars, cutVars, catVars, regVars, outerVars>>

\* The call in progress ends, returning ("ok") or raising.
DirEnd(status) ==
    /\ dirPc' = "idle"
    /\ dirResult' = [op |-> dirCall.op, create |-> dirCall.create, status |-> status,
                     before |-> dirCall.before]
    /\ dirCall' = NoDirCall

\* const auto initFlagFileExists = fs::exists(initFlagFile);
EnsureDataDirCall(create) ==
    /\ dirPc = "idle"
    /\ dirPc' = "ensureDataDir"
    /\ dirCall' = [op |-> "ensureDataDir", create |-> create,
                   initFlagFileExists |-> initFlagFile # "absent", before |-> DirState]
    /\ dirResult' = NoDirResult
    /\ UNCHANGED <<dataDirExists, dataDirFiles, initFlagFile, flagFileCompleted,
                   flagFileRaised>>
    /\ DirOnly

\* if (initFlagFileExists) throw kErrorDatabaseAlreadyExists
DatabaseNeverExists(call) == FALSE

DatabaseExists(call) == call.initFlagFileExists

EnsureDataDirAlreadyExists ==
    /\ dirPc = "ensureDataDir"
    /\ dirCall.create
    /\ DatabaseExists(dirCall)
    /\ DirEnd("DatabaseAlreadyExists")
    /\ UNCHANGED <<dataDirExists, dataDirFiles, initFlagFile, flagFileCompleted,
                   flagFileRaised>>
    /\ DirOnly

\* if (fs::exists(dataDirPath)) fs::remove_all(dataDirPath);
EnsureDataDirExists ==
    /\ dirPc = "ensureDataDir"
    /\ dirCall.create
    /\ ~DatabaseExists(dirCall)
    /\ dirPc' = (IF dataDirExists THEN "remove_all" ELSE "create_directories")
    /\ UNCHANGED <<dataDirExists, dataDirFiles, initFlagFile, dirCall, dirResult,
                   flagFileCompleted, flagFileRaised>>
    /\ DirOnly

\* fs::remove_all removes the contents entry by entry ...
RemoveAllFile ==
    /\ dirPc = "remove_all"
    /\ dataDirFiles > 0
    /\ dataDirFiles' = dataDirFiles - 1
    /\ UNCHANGED <<dataDirExists, initFlagFile, dirPc, dirCall, dirResult,
                   flagFileCompleted, flagFileRaised>>
    /\ DirOnly

\* ... and then the directory itself.
RemoveAllDirectory ==
    /\ dirPc = "remove_all"
    /\ dataDirFiles = 0
    /\ dataDirExists' = FALSE
    /\ initFlagFile' = "absent"
    /\ flagFileCompleted' = FALSE
    /\ dirPc' = "create_directories"
    /\ UNCHANGED <<dataDirFiles, dirCall, dirResult, flagFileRaised>>
    /\ DirOnly

\* catch (fs::filesystem_error&) around remove_all and create_directories:
\* what has been removed stays removed.
EnsureDataDirFails ==
    /\ dirPc \in {"remove_all", "create_directories"}
    /\ DirEnd("CannotCreateDatabaseDataDir")
    /\ UNCHANGED <<dataDirExists, dataDirFiles, initFlagFile, flagFileCompleted,
                   flagFileRaised>>
    /\ DirOnly

\* fs::create_directories(dataDirPath); return dataDir
CreateDirectories ==
    /\ dirPc = "create_directories"
    /\ dataDirExists' = TRUE
    /\ flagFileCompleted' = FALSE
    /\ DirEnd("ok")
    /\ UNCHANGED <<dataDirFiles, initFlagFile, flagFileRaised>>
    /\ DirOnly

\* The else branch: the checks of an existing database.
ensureDataDirFoundDirectoryOnly(dataDirFound, initFlagFileExists) ==
    IF ~dataDirFound THEN "DatabaseDataFolderDoesNotExist" ELSE "ok"

ensureDataDirFound(dataDirFound, initFlagFileExists) ==
    IF ~dataDirFound THEN "DatabaseDataFolderDoesNotExist"
    ELSE IF ~initFlagFileExists THEN "DatabaseInitFileDoesNotExist"
    ELSE "ok"

EnsureDataDirCheck ==
    /\ dirPc = "ensureDataDir"
    /\ ~dirCall.create
    /\ DirEnd(ensureDataDirFound(dataDirExists, dirCall.initFlagFileExists))
    /\ UNCHANGED <<dataDirExists, dataDirFiles, initFlagFile, flagFileCompleted,
                   flagFileRaised>>
    /\ DirOnly

\* std::ofstream ofs(initFlagFile): the file is created, or truncated, by
\* the open.
CreateInitializationFlagFileOpen ==
    /\ dirPc = "idle"
    /\ dataDirExists
    /\ initFlagFile' = "empty"
    /\ dirPc' = "opened"
    /\ dirCall' = [op |-> "createInitializationFlagFile", create |-> FALSE,
                   initFlagFileExists |-> initFlagFile # "absent", before |-> DirState]
    /\ dirResult' = NoDirResult
    /\ UNCHANGED <<dataDirExists, dataDirFiles, flagFileCompleted, flagFileRaised>>
    /\ DirOnly

\* if (!ofs.is_open()) throw ("create file failed"): no file is made; it
\* always fails without the directory.
CreateInitializationFlagFileOpenFails ==
    /\ dirPc = "idle"
    /\ dirPc' = "idle"
    /\ dirCall' = NoDirCall
    /\ dirResult' = [op |-> "createInitializationFlagFile", create |-> FALSE,
                     status |-> "CannotCreateDatabaseInitializationFlagFile",
                     before |-> DirState]
    /\ flagFileRaised' = TRUE
    /\ UNCHANGED <<dataDirExists, dataDirFiles, initFlagFile, flagFileCompleted>>
    /\ DirOnly

\* ofs << std::time(nullptr) << std::flush;
CreateInitializationFlagFileWrite ==
    /\ dirPc = "opened"
    /\ initFlagFile' = "written"
    /\ flagFileCompleted' = TRUE
    /\ flagFileRaised' = FALSE
    /\ DirEnd("ok")
    /\ UNCHANGED <<dataDirExists, dataDirFiles>>
    /\ DirOnly

\* catch (std::exception&) throw ("write failed"): the opened file stays.
CreateInitializationFlagFileWriteFails ==
    /\ dirPc = "opened"
    /\ flagFileRaised' = TRUE
    /\ DirEnd("CannotCreateDatabaseInitializationFlagFile")
    /\ UNCHANGED <<dataDirExists, dataDirFiles, initFlagFile, flagFileCompleted>>
    /\ DirOnly

\* The process dies inside a call; the file system stays as it is.
DirCrash ==
    /\ dirPc # "idle"
    /\ dirPc' = "idle"
    /\ dirCall' = NoDirCall
    /\ dirResult' = NoDirResult
    /\ UNCHANGED <<dataDirExists, dataDirFiles, initFlagFile, flagFileCompleted,
                   flagFileRaised>>
    /\ DirOnly

DirNext ==
    \/ \E create \in BOOLEAN : EnsureDataDirCall(create)
    \/ EnsureDataDirAlreadyExists
    \/ EnsureDataDirExists
    \/ RemoveAllFile
    \/ RemoveAllDirectory
    \/ EnsureDataDirFails
    \/ CreateDirectories
    \/ EnsureDataDirCheck
    \/ CreateInitializationFlagFileOpen
    \/ CreateInitializationFlagFileOpenFails
    \/ CreateInitializationFlagFileWrite
    \/ CreateInitializationFlagFileWriteFails
    \/ DirCrash

\* The registries no other section holds start empty.
RegInit ==
    /\ m_columnDefinitionRegistry = {}
    /\ m_columnSetRegistry = {}
    /\ m_indexRegistry = {}

-----------------------------------------------------------------------------
(* Database::register*                                                      *)

\* The kinds of object that have a register function, and its name.
RegisterOp == [Table |-> "registerTable", Column |-> "registerColumn",
               ColumnDefinition |-> "registerColumnDefinition",
               ColumnSet |-> "registerColumnSet",
               ConstraintDefinition |-> "registerConstraintDefinition",
               Constraint |-> "registerConstraint", Index |-> "registerIndex"]

RegisteredKinds == DOMAIN RegisterOp

RegisterOps == {RegisterOp[kind] : kind \in RegisteredKinds}

RegisteredKind(op) == CHOOSE kind \in RegisteredKinds : RegisterOp[kind] = op

\* The kinds whose registry has a unique index by name next to the one by id.
UniqueNameKinds == {"Table", "Constraint"}

RegIds == {1, 2}

\* The names of the objects registered: one name for the kinds whose name is
\* no unique key.
RegNames(kind) == IF kind \in UniqueNameKinds THEN {"a", "b"} ELSE {"a"}

\* The registry of a kind.
RegistryOf(kind) ==
    CASE kind = "Table" -> m_tableRegistry
      [] kind = "Column" -> m_columnRegistry
      [] kind = "ColumnDefinition" -> m_columnDefinitionRegistry
      [] kind = "ColumnSet" -> m_columnSetRegistry
      [] kind = "ConstraintDefinition" -> m_constraintDefinitionRegistry
      [] kind = "Constraint" -> m_constraintRegistry
      [] kind = "Index" -> m_indexRegistry

\* insert(record): AlreadyExists if a unique index holds the record's key,
\* else the record is added to every index.
RegistryInsert(registry, record, uniqueName) ==
    IF \E r \in registry :
           r.m_id = record.m_id \/ (uniqueName /\ r.m_name = record.m_name)
    THEN [status |-> "AlreadyExists", registry |-> registry]
    ELSE [status |-> "ok", registry |-> registry \cup {record}]

\* m_<kind>Registry.emplace(object)
registerIgnoringFailure(kind, record) ==
    [status |-> "ok",
     registry |-> RegistryInsert(RegistryOf(kind), record,
                                 kind \in UniqueNameKinds).registry]

register(kind, record) ==
    RegistryInsert(RegistryOf(kind), record, kind \in UniqueNameKinds)

\* What a register function leaves alone.
RegOnly ==
    UNCHANGED <<idVars, relVars, m_constraintDefinitionCache, cdPc, cdCall, cdResult,
                createdBy, cdCalls, m_tableCache, cutPc, cutCall, cutResult,
                otherConstraintRegistry, dirVars, outerVars>>

\* A register function is called with an object of the kind.
RegisterCall(t, kind, id, name) ==
    /\ CatEnter(t, [NoCatCall EXCEPT !.op = RegisterOp[kind], !.id = id, !.name = name])
    /\ UNCHANGED <<m_mutex, m_tableRegistry, m_columnRegistry, m_constraintRegistry,
                   m_constraintDefinitionRegistry, regVars>>
    /\ RegOnly

\* std::lock_guard lock(m_mutex); m_<kind>Registry.emplace(object);
RegisterLocked(t) ==
    /\ catPc[t] = "locked"
    /\ catCall[t].op \in RegisterOps
    /\ LET kind == RegisteredKind(catCall[t].op)
           record == [m_id |-> catCall[t].id, m_name |-> catCall[t].name]
           r == register(kind, record)
           after(k) == IF k = kind THEN r.registry ELSE RegistryOf(k)
       IN  /\ m_tableRegistry' = after("Table")
           /\ m_columnRegistry' = after("Column")
           /\ m_columnDefinitionRegistry' = after("ColumnDefinition")
           /\ m_columnSetRegistry' = after("ColumnSet")
           /\ m_constraintDefinitionRegistry' = after("ConstraintDefinition")
           /\ m_constraintRegistry' = after("Constraint")
           /\ m_indexRegistry' = after("Index")
           /\ CatFinish(t, r.status, record.m_id)
    /\ RegOnly

RegNext ==
    \/ \E t \in CatThreads, kind \in RegisteredKinds, id \in RegIds :
           \E name \in RegNames(kind) : RegisterCall(t, kind, id, name)
    \/ \E t \in CatThreads : CatLock(t)
    \/ \E t \in CatThreads : RegisterLocked(t)
    \/ \E t \in CatThreads : CatUnlock(t)
    \/ \E t \in CatThreads : CatReturn(t)

-----------------------------------------------------------------------------
(* Database::updateColumnDefinitionRegistration, updateColumnSetRegistration *)

\* The kinds of object that have an update function, its name and the error
\* it raises for an object that is not registered.
UpdateOp == [ColumnDefinition |-> "updateColumnDefinitionRegistration",
             ColumnSet |-> "updateColumnSetRegistration"]

UpdateError == [ColumnDefinition |-> "ColumnDefinitionDoesNotExist",
                ColumnSet |-> "ColumnSetDoesNotExist"]

UpdatedKinds == DOMAIN UpdateOp

UpdatedKind(op) == CHOOSE kind \in UpdatedKinds : UpdateOp[kind] = op

\* What the object holds besides its id, when registered and when updated.
UpdContents == {"a", "b"}

\* index.find(object.getId()); if (it == index.end()) throw; index.replace(it, newRecord)
updateRegistrationInserting(kind, record) ==
    [status |-> "ok",
     registry |-> {r \in RegistryOf(kind) : r.m_id # record.m_id} \cup {record}]

updateRegistration(kind, record) ==
    IF ~\E r \in RegistryOf(kind) : r.m_id = record.m_id
    THEN [status |-> UpdateError[kind], registry |-> RegistryOf(kind)]
    ELSE [status |-> "ok",
          registry |-> {r \in RegistryOf(kind) : r.m_id # record.m_id} \cup {record}]

\* An update function is called with an object of the kind.
UpdateCall(t, kind, id, contents) ==
    /\ CatEnter(t, [NoCatCall EXCEPT !.op = UpdateOp[kind], !.id = id, !.name = contents])
    /\ UNCHANGED <<m_mutex, m_tableRegistry, m_columnRegistry, m_constraintRegistry,
                   m_constraintDefinitionRegistry, regVars>>
    /\ RegOnly

\* std::lock_guard lock(m_mutex); find, throw or replace.
UpdateLocked(t) ==
    /\ catPc[t] = "locked"
    /\ catCall[t].op \in {UpdateOp[kind] : kind \in UpdatedKinds}
    /\ LET kind == UpdatedKind(catCall[t].op)
           record == [m_id |-> catCall[t].id, m_name |-> catCall[t].name]
           r == updateRegistration(kind, record)
       IN  /\ m_columnDefinitionRegistry' =
                  (IF kind = "ColumnDefinition" THEN r.registry
                   ELSE m_columnDefinitionRegistry)
           /\ m_columnSetRegistry' =
                  (IF kind = "ColumnSet" THEN r.registry ELSE m_columnSetRegistry)
           /\ CatFinish(t, r.status, record.m_id)
    /\ UNCHANGED <<m_tableRegistry, m_columnRegistry, m_constraintRegistry,
                   m_constraintDefinitionRegistry, m_indexRegistry>>
    /\ RegOnly

UpdNext ==
    \/ \E t \in CatThreads, kind \in UpdatedKinds, id \in RegIds :
           RegisterCall(t, kind, id, "a")
    \/ \E t \in CatThreads, kind \in UpdatedKinds, id \in RegIds :
           \E contents \in UpdContents : UpdateCall(t, kind, id, contents)
    \/ \E t \in CatThreads : CatLock(t)
    \/ \E t \in CatThreads : RegisterLocked(t)
    \/ \E t \in CatThreads : UpdateLocked(t)
    \/ \E t \in CatThreads : CatUnlock(t)
    \/ \E t \in CatThreads : CatReturn(t)

-----------------------------------------------------------------------------
(* Database::checkDataConsistency and generateNext*Id among other threads    *)

\* The position of a table name in m_tableRegistry.byName(); the empty name
\* stands for the position before the first record.
NameRank(name) == IF name = "" THEN 0 ELSE IF name = "a" THEN 1 ELSE 2

\* What checkDataConsistency and generateNext*Id leave alone.
MutexOnly ==
    UNCHANGED <<relVars, m_constraintDefinitionRegistry, m_constraintDefinitionCache,
                cdPc, cdCall, cdResult, createdBy, cdCalls, minted, lastAlloc,
                m_sysTables, m_lastSystemTrid, m_lastUserTrid,
                m_tableRegistry, m_columnRegistry, m_constraintRegistry,
                cutPc, cutCall, cutResult, otherConstraintRegistry, dirVars, regVars,
                outerVars>>

\* checkDataConsistency is called: the function takes no lock.
CheckDataConsistencyCall(t) ==
    /\ catPc[t] = "idle"
    /\ catCalls < MaxCatCalls
    /\ catCalls' = catCalls + 1
    /\ catPc' = [catPc EXCEPT ![t] = "iterate"]
    /\ catCall' = [catCall EXCEPT ![t] = [NoCatCall EXCEPT !.op = "checkDataConsistency"]]
    /\ UNCHANGED <<catResult, m_mutex, m_tableCache, m_tmpTridCounters>>
    /\ MutexOnly

\* for (const auto& e : m_tableRegistry.byName()): the iterator is set on the
\* first record, or moved to the next one, and compared with the end.
CheckDataConsistencyIterate(t) ==
    /\ catPc[t] = "iterate"
    /\ LET rest == {r \in m_tableRegistry : NameRank(r.m_name) > NameRank(catCall[t].name)} IN
       IF rest = {}
       THEN /\ catPc' = [catPc EXCEPT ![t] = "done"]
            /\ catResult' = [catResult EXCEPT ![t] = [status |-> "ok", id |-> 0]]
            /\ UNCHANGED catCall
       ELSE LET e == CHOOSE r \in rest :
                         \A q \in rest : NameRank(r.m_name) <= NameRank(q.m_name) IN
            /\ catPc' = [catPc EXCEPT ![t] = "lock"]
            /\ catCall' = [catCall EXCEPT ![t].name = e.m_name, ![t].id = e.m_id]
            /\ UNCHANGED catResult
    /\ UNCHANGED <<catCalls, m_mutex, m_tableCache, m_tmpTridCounters>>
    /\ MutexOnly

\* The iterator is read while another thread is inside m_tableRegistry.emplace:
\* a data race, whose outcomes are those of CheckDataConsistencyIterate and a
\* fault.
CheckDataConsistencyIterateFaults(t) ==
    /\ catPc[t] = "iterate"
    /\ \E u \in CatThreads \ {t} :
           catPc[u] = "locked" /\ catCall[u].op = "registerTable"
    /\ catPc' = [catPc EXCEPT ![t] = "faulted"]
    /\ UNCHANGED <<catCall, catResult, catCalls, m_mutex, m_tableCache, m_tmpTridCounters>>
    /\ MutexOnly

\* const auto table = getTableChecked(e.m_id), under the mutex.
CheckDataConsistencyGetTable(t) ==
    /\ catPc[t] = "locked"
    /\ catCall[t].op = "checkDataConsistency"
    /\ LET r == getTableUnlocked({x \in m_tableRegistry : x.m_id = catCall[t].id}) IN
       /\ m_tableCache' = r.tableCache
       /\ CatFinish(t, r.status, r.id)
    /\ UNCHANGED m_tmpTridCounters
    /\ MutexOnly

\* getTableChecked returns or raises: the mutex is released and the loop goes
\* on or ends.
CheckDataConsistencyUnlock(t) ==
    /\ catPc[t] = "unlock"
    /\ catCall[t].op = "checkDataConsistency"
    /\ m_mutex' = 0
    /\ catPc' = [catPc EXCEPT ![t] =
                    IF catResult[t].status = "ok" THEN "iterate" ELSE "done"]
    /\ UNCHANGED <<catCall, catResult, catCalls, m_tableCache, m_tmpTridCounters>>
    /\ MutexOnly

\* The lock_guard of another operation releases the mutex.
RegisterUnlock(t) ==
    /\ catCall[t].op # "checkDataConsistency"
    /\ CatUnlock(t)

\* generateNextColumnId(true) is called while the system table of the columns
\* is not available: the function takes no lock.
GenerateNextIdCall(t) ==
    /\ catPc[t] = "idle"
    /\ catCalls < MaxCatCalls
    /\ "Column" \notin m_sysTables
    /\ catCalls' = catCalls + 1
    /\ catPc' = [catPc EXCEPT ![t] = "increment"]
    /\ catCall' = [catCall EXCEPT ![t] =
                      [NoCatCall EXCEPT !.op = "generateNextColumnId", !.name = "Column"]]
    /\ UNCHANGED <<catResult, m_mutex, m_tableCache, m_tmpTridCounters>>
    /\ MutexOnly

\* ++m_tmpTridCounters.m_lastColumnId on a plain integer: the read ...
GenerateNextIdLoad(t) ==
    /\ catPc[t] = "increment"
    /\ catPc' = [catPc EXCEPT ![t] = "store"]
    /\ catCall' = [catCall EXCEPT ![t].id = m_tmpTridCounters[catCall[t].name]]
    /\ UNCHANGED <<catResult, catCalls, m_mutex, m_tableCache, m_tmpTridCounters>>
    /\ MutexOnly

\* ... and the write of the value read plus one, which is returned.
GenerateNextIdStore(t) ==
    /\ catPc[t] = "store"
    /\ m_tmpTridCounters' = [m_tmpTridCounters EXCEPT
                                ![catCall[t].name] = PreIncrement(catCall[t].id)]
    /\ catPc' = [catPc EXCEPT ![t] = "done"]
    /\ catResult' = [catResult EXCEPT ![t] =
                        [status |-> "ok", id |-> PreIncrement(catCall[t].id)]]
    /\ UNCHANGED <<catCall, catCalls, m_mutex, m_tableCache>>
    /\ MutexOnly

MutexNext ==
    \/ \E t \in CatThreads, id \in RegIds, name \in RegNames("Table") :
           RegisterCall(t, "Table", id, name)
    \/ \E t \in CatThreads : CatLock(t)
    \/ \E t \in CatThreads : RegisterLocked(t)
    \/ \E t \in CatThreads : RegisterUnlock(t)
    \/ \E t \in CatThreads : CatReturn(t)
    \/ \E t \in CatThreads : CheckDataConsistencyCall(t)
    \/ \E t \in CatThreads : CheckDataConsistencyIterate(t)
    \/ \E t \in CatThreads : CheckDataConsistencyIterateFaults(t)
    \/ \E t \in CatThreads : CheckDataConsistencyGetTable(t)
    \/ \E t \in CatThreads : CheckDataConsistencyUnlock(t)
    \/ \E t \in CatThreads : GenerateNextIdCall(t)
    \/ \E t \in CatThreads : GenerateNextIdLoad(t)
    \/ \E t \in CatThreads : GenerateNextIdStore(t)

-----------------------------------------------------------------------------
(* InstanceOptions::load                                                    *)
(*                                                                          *)
(* The limits are scaled.  A text option is a sequence of characters where  *)
(* the code trims or cuts it, and a string otherwise; an option that the    *)
(* file leaves out is the option with its default value.                    *)

kMinPortNumber == 2

kMaxPortNumber == 4

kMaxAdminConnectionListenerBacklog == 2

kMaxMaxAdminConnections == 2

kMaxUserConnectionListenerBacklog == 2

kMaxMaxUserConnections == 2

kMinIOManagerBlockCacheCapacity == 2

kMinIOManagerUserCacheCapacity == 2

kMinIOManagerDatabaseCacheCapacity == 2

kMinIOManagerTableCacheCapacity == 2

\* boost::trim_copy: the text without its leading and trailing white space.
trim_copy(text) ==
    LET kept == {i \in 1..Len(text) : text[i] # " "} IN
    IF kept = {} THEN <<>>
    ELSE SubSeq(text, CHOOSE i \in kept : \A j \in kept : i <= j,
                      CHOOSE i \in kept : \A j \in kept : i >= j)

\* while (!dir.empty() && dir.back() == '/') dir.erase(dir.length() - 1);
keepTrailingSlashes(text) == text

eraseTrailingSlashes(text) ==
    LET kept == {i \in 1..Len(text) : text[i] # "/"} IN
    IF kept = {} THEN <<>>
    ELSE SubSeq(text, 1, CHOOSE i \in kept : \A j \in kept : i >= j)

\* port != 0 && (port < kMinPortNumber || port > kMaxPortNumber)
PortAlwaysValid(port) == FALSE

PortInvalid(port) == port # 0 /\ (port < kMinPortNumber \/ port > kMaxPortNumber)

\* BoolTranslator::get_value with the default of client.enable_encryption
\* for a text that is neither: strcasecmp with "true", "yes", "false", "no".
getBool(option) ==
    IF option \in {"true", "TRUE", "yes", "Yes"} THEN TRUE
    ELSE IF option \in {"false", "no", "No", "NO"} THEN FALSE
    ELSE TRUE

\* What std::stoll / std::stoull / std::stoul and the range checks make of
\* the sample texts of the numeric log options, and the severity names.
maxFileSizeAccepted(option) == option \in {"10M", "1"}

maxFilesAccepted(option) == option \in {"1", "10"}

expirationTimeAccepted(option) == option \in {"1d", "0", "1"}

severityAccepted(option) == option \in {"trace", "debug", "info", "warning", "error", "fatal",
                                        "INFO"}

\* The first of the checks, in the order of the code, that throws: a check
\* is <<it throws, the exception, its message>>.
NoError == <<FALSE, "ok", "">>

FirstError(checks) ==
    LET failing == {i \in 1..Len(checks) : checks[i][1]} IN
    IF failing = {} THEN NoError
    ELSE checks[CHOOSE i \in failing : \A j \in failing : i <= j]

Invalid(fails, message) == <<fails, "InvalidConfigurationOption", message>>

\* The loop that collects the log channel names.
LogChannelNameChecks(channels) ==
    [i \in 1..Len(channels) |->
        IF channels[i].name = ""
        THEN Invalid(TRUE, "Empty log channel name detected")
        ELSE Invalid(\E j \in 1..(i - 1) : channels[j].name = channels[i].name,
                     "Duplicate log channel name")]

\* The options of one log channel.
LogChannelChecks(channel) ==
    << Invalid(channel.type = "", "Type not defined for the log channel"),
       Invalid(channel.type \notin {"console", "file"}, "Unsupported channel type"),
       Invalid(channel.destination = "", "Destination not defined for the log channel"),
       Invalid(~maxFileSizeAccepted(channel.max_file_size), "Invalid value of max. file size"),
       Invalid(~maxFilesAccepted(channel.max_files),
               "Invalid value of max. number of log files"),
       Invalid(~expirationTimeAccepted(channel.exp_time), "Invalid value of expiration time"),
       Invalid(~severityAccepted(channel.severity), "Invalid log severity level") >>

RECURSIVE LogChannelsChecks(_)
LogChannelsChecks(channels) ==
    IF channels = <<>> THEN <<>>
    ELSE LogChannelChecks(Head(channels)) \o LogChannelsChecks(Tail(channels))

\* tmpOptions when every option has been parsed.
tmpOptions(cfg) ==
    LET enableEncryption == getBool(cfg.client_enable_encryption) IN
    [m_ipv4port |-> cfg.ipv4_port,
     m_ipv6port |-> cfg.ipv6_port,
     m_dataDirectory |-> eraseTrailingSlashes(trim_copy(cfg.data_dir)),
     m_adminConnectionListenerBacklog |-> cfg.admin_connection_listener_backlog,
     m_maxAdminConnections |-> cfg.max_admin_connections,
     m_userConnectionListenerBacklog |-> cfg.user_connection_listener_backlog,
     m_maxUserConnections |-> cfg.max_user_connections,
     m_logChannels |-> cfg.log_channels,
     m_workerThreadNumber |-> cfg.iomgr_worker_thread_number,
     m_writerThreadNumber |-> cfg.iomgr_writer_thread_number,
     m_ioManagerIpv4port |-> cfg.iomgr_ipv4_port,
     m_ioManagerIpv6port |-> cfg.iomgr_ipv6_port,
     m_blockCacheCapacity |-> cfg.iomgr_block_cache_capacity,
     m_userCacheCapacity |-> cfg.iomgr_user_cache_capacity,
     m_databaseCacheCapacity |-> cfg.iomgr_database_cache_capacity,
     m_tableCacheCapacity |-> cfg.iomgr_table_cache_capacity,
     m_enableEncryption |-> enableEncryption,
     m_tlsCertificate |->
         IF enableEncryption THEN trim_copy(cfg.client_tls_certificate) ELSE <<>>,
     m_tlsCertificateChain |->
         IF enableEncryption THEN trim_copy(cfg.client_tls_certificate_chain) ELSE <<>>,
     m_tlsPrivateKey |->
         IF enableEncryption THEN trim_copy(cfg.client_tls_private_key) ELSE <<>>]

\* The checks of load in the order of the code.
LoadChecks(cfg) ==
    LET tmp == tmpOptions(cfg) IN
    << Invalid(PortInvalid(tmp.m_ipv4port), "Invalid IPv4 server port number"),
       Invalid(PortInvalid(tmp.m_ipv6port), "Invalid IPv6 server port number"),
       Invalid(tmp.m_ipv6port = 0 /\ tmp.m_ipv4port = 0, "Both IPv4 and IPv6 are disabled"),
       Invalid(tmp.m_dataDirectory = <<>>, "Data directory not specified or empty"),
       Invalid(\/ tmp.m_adminConnectionListenerBacklog < 1
               \/ tmp.m_adminConnectionListenerBacklog > kMaxAdminConnectionListenerBacklog,
               "Admin connection listener backlog value is out of range"),
       Invalid(tmp.m_maxAdminConnections < 1
                   \/ tmp.m_maxAdminConnections > kMaxMaxAdminConnections,
               "Max. number of admin connections is out of range"),
       Invalid(\/ tmp.m_userConnectionListenerBacklog < 1
               \/ tmp.m_userConnectionListenerBacklog > kMaxUserConnectionListenerBacklog,
               "User connection listener backlog value is out of range"),
       Invalid(tmp.m_maxUserConnections < 1
                   \/ tmp.m_maxUserConnections > kMaxMaxUserConnections,
               "Max. number of user connections is out of range") >>
    \o LogChannelNameChecks(cfg.log_channels)
    \o LogChannelsChecks(cfg.log_channels)
    \o
    << Invalid(tmp.m_workerThreadNumber < 1,
               "Number of IO Manager worker threads is out of range"),
       Invalid(tmp.m_writerThreadNumber < 1,
               "Number of IO Manager writer threads is out of range"),
       Invalid(PortInvalid(tmp.m_ioManagerIpv4port), "Invalid IO Manager IPv4 port number"),
       Invalid(tmp.m_ioManagerIpv4port # 0 /\ tmp.m_ioManagerIpv4port = tmp.m_ipv4port,
               "IO Manager and database use the same IPv4 port number"),
       Invalid(PortInvalid(tmp.m_ioManagerIpv6port), "Invalid IO Manager IPv6 port number"),
       Invalid(tmp.m_ioManagerIpv6port # 0 /\ tmp.m_ioManagerIpv6port = tmp.m_ipv6port,
               "IO Manager and database use the same IPv6 port number"),
       Invalid(tmp.m_ioManagerIpv6port = 0 /\ tmp.m_ioManagerIpv4port = 0,
               "Both IPv4 and IPv6 are disabled for IO Manager"),
       Invalid(tmp.m_blockCacheCapacity < kMinIOManagerBlockCacheCapacity,
               "IO Manager block cache capacity is too small"),
       Invalid(tmp.m_userCacheCapacity < kMinIOManagerUserCacheCapacity,
               "IO Manager user cache capacity is too small"),
       Invalid(tmp.m_databaseCacheCapacity < kMinIOManagerDatabaseCacheCapacity,
               "IO Manager database cache capacity is too small"),
       Invalid(tmp.m_tableCacheCapacity < kMinIOManagerTableCacheCapacity,
               "IO Manager table cache capacity is too small"),
       << tmp.m_enableEncryption
              /\ tmp.m_tlsCertificate = <<>> /\ tmp.m_tlsCertificate = <<>>,
          "runtime_error",
          "Client certificate or certificate chain must be set to create a TLS connection" >>,
       << tmp.m_enableEncryption /\ tmp.m_tlsPrivateKey = <<>>,
          "runtime_error", "Client TLS private keys is empty" >> >>

\* InstanceOptions::load: what it throws, and the options to save.
load(cfg) ==
    LET error == FirstError(LoadChecks(cfg)) IN
    [status |-> error[2], message |-> error[3], options |-> tmpOptions(cfg)]

\* A log channel that load accepts.
ConsoleChannel == [name |-> "console", type |-> "console", destination |-> "stdout",
                   max_file_size |-> "10M", max_files |-> "1", exp_time |-> "1d",
                   severity |-> "trace"]

\* The sample configuration, within the scaled limits, with TLS files.
BaseConfig ==
    [ipv4_port |-> kMinPortNumber, ipv6_port |-> 0,
     data_dir |-> <<"d">>,
     admin_connection_listener_backlog |-> 1, max_admin_connections |-> 1,
     user_connection_listener_backlog |-> 1, max_user_connections |-> 1,
     log_channels |-> <<ConsoleChannel>>,
     iomgr_worker_thread_number |-> 1, iomgr_writer_thread_number |-> 1,
     iomgr_ipv4_port |-> kMaxPortNumber, iomgr_ipv6_port |-> 0,
     iomgr_block_cache_capacity |-> kMinIOManagerBlockCacheCapacity,
     iomgr_user_cache_capacity |-> kMinIOManagerUserCacheCapacity,
     iomgr_database_cache_capacity |-> kMinIOManagerDatabaseCacheCapacity,
     iomgr_table_cache_capacity |-> kMinIOManagerTableCacheCapacity,
     client_enable_encryption |-> "no",
     client_tls_certificate |-> <<>>, client_tls_certificate_chain |-> <<>>,
     client_tls_private_key |-> <<>>]

PortValues == 0..(kMaxPortNumber + 1)

\* Configurations that differ in the four ports.
PortConfigs ==
    {[BaseConfig EXCEPT !.ipv4_port = p[1], !.ipv6_port = p[2],
                        !.iomgr_ipv4_port = p[3], !.iomgr_ipv6_port = p[4]] :
        p \in PortValues \X PortValues \X PortValues \X PortValues}

\* Configurations that differ in the client options.
ClientConfigs ==
    {[BaseConfig EXCEPT !.client_enable_encryption = c[1],
                        !.client_tls_certificate = c[2],
                        !.client_tls_certificate_chain = c[3],
                        !.client_tls_private_key = c[4]] :
        c \in {"yes", "TRUE", "No", "false", "maybe"} \X {<<>>, <<" ">>, <<"c">>}
              \X {<<>>, <<"c">>} \X {<<>>, <<"k", " ">>}}

\* Configurations that differ in the data directory, the connection limits,
\* the log channels, the thread numbers and the cache capacities.
GeneralConfigs ==
    {[BaseConfig EXCEPT
          !.data_dir = g[1],
          !.admin_connection_listener_backlog = g[2][1],
          !.max_admin_connections = g[2][2],
          !.user_connection_listener_backlog = g[2][3],
          !.max_user_connections = g[2][4],
          !.log_channels = g[3],
          !.iomgr_worker_thread_number = g[4][1],
          !.iomgr_writer_thread_number = g[4][2],
          !.iomgr_block_cache_capacity = g[5][1],
          !.iomgr_user_cache_capacity = g[5][2],
          !.iomgr_database_cache_capacity = g[5][3],
          !.iomgr_table_cache_capacity = g[5][4]] :
        g \in {<<>>, <<"/">>, <<"d">>, <<" ", "d", "/", "/", " ">>, <<"/", "d", "/">>}
              \X ({0, 1, kMaxAdminConnectionListenerBacklog + 1}
                  \X {0, kMaxMaxAdminConnections, kMaxMaxAdminConnections + 1}
                  \X {1, kMaxUserConnectionListenerBacklog + 1}
                  \X {0, kMaxMaxUserConnections})
              \X {<<ConsoleChannel>>, <<ConsoleChannel, ConsoleChannel>>,
                  <<[ConsoleChannel EXCEPT !.name = "file", !.type = "file",
                                           !.max_file_size = "0"]>>}
              \X ({0, 1} \X {0, 1})
              \X ({kMinIOManagerBlockCacheCapacity - 1, kMinIOManagerBlockCacheCapacity}
                  \X {kMinIOManagerUserCacheCapacity - 1, kMinIOManagerUserCacheCapacity}
                  \X {kMinIOManagerDatabaseCacheCapacity - 1,
                      kMinIOManagerDatabaseCacheCapacity + 1}
                  \X {kMinIOManagerTableCacheCapacity - 1, kMinIOManagerTableCacheCapacity})}

NoLoadResult == [status |-> "none", message |-> "", before |-> tmpOptions(BaseConfig)]

\* The object load is called on holds the options of an earlier load.
OptInit(configs, earlier) ==
    /\ config \in configs
    /\ m_options \in {tmpOptions(cfg) : cfg \in earlier}
    /\ loadResult = NoLoadResult

\* load is called: *this = std::move(tmpOptions) is reached only when no
\* check has thrown.
Load ==
    /\ loadResult.status = "none"
    /\ LET r == load(config) IN
       /\ m_options' = (IF r.status = "ok" THEN r.options ELSE m_options)
       /\ loadResult' = [status |-> r.status, message |-> r.message, before |-> m_options]
    /\ UNCHANGED config
    /\ UNCHANGED <<idVars, relVars, cdVars, cutVars, catVars, dirVars, regVars, mainVars,
                   clientVars, objVars>>

-----------------------------------------------------------------------------
(* siodbMain                                                                *)
(*                                                                          *)
(* Server processes of one instance, each running siodbMain.  They share    *)
(* the instance's configuration file, initialization lock file and IOMgr    *)
(* initialization flag file.                                                *)

NumServers == 2

Servers == 1..NumServers

\* argv without argv[0].
CommandLines == {"", "--help", "--bogus", "--daemon", "--instance x",
                 "--instance x --daemon"}

\* boost::program_options::parse_command_line throws on an unknown option.
ParseFails(arguments) == arguments = "--bogus"

Help(arguments) == arguments = "--help"

RunAsDaemon(arguments) == arguments \in {"--daemon", "--instance x --daemon"}

InstanceName(arguments) ==
    IF arguments \in {"--instance x", "--instance x --daemon"} THEN "x" ELSE ""

NoFlagFile == [exists |-> FALSE, run |-> 0]

\* A flag file that an earlier run of the instance has left.
StaleFlagFile == [exists |-> TRUE, run |-> 0]

NothingObserved == [flag |-> FALSE, run |-> 0, alive |-> FALSE]

MainInit(flagFiles) ==
    /\ mainPc = [p \in Servers |-> "start"]
    /\ commandLine = [p \in Servers |-> ""]
    /\ exitCode = [p \in Servers |-> 0]
    /\ exitCause = [p \in Servers |-> "none"]
    /\ lockHolders = {}
    /\ iomgrInitFlagFile \in flagFiles
    /\ iomgr = [p \in Servers |-> "none"]
    /\ observed = [p \in Servers |-> NothingObserved]
    /\ managers = [p \in Servers |-> <<>>]
    /\ removedFlag = [p \in Servers |-> FALSE]

MainIdle == MainInit({NoFlagFile})

ClientIdle ==
    /\ clientPc = "idle"
    /\ requestId = 0
    /\ stopOnError = FALSE
    /\ responseId = 0
    /\ responseCount = 0
    /\ received = <<>>
    /\ rowDataRead = {}
    /\ clientError = "none"

\* No configuration file has been read and no InstanceOptions object made.
OptIdle ==
    /\ config = <<>>
    /\ m_options = <<>>
    /\ loadResult = [status |-> "none", message |-> "", before |-> <<>>]

\* No Table object is loaded and no thread holds a handle.
ObjIdle == tableObjects = <<>> /\ latestResult = <<>> /\ auth = <<>> /\ callStacks = <<>>

OuterIdle == OptIdle /\ MainIdle /\ ClientIdle /\ ObjIdle

MainOnly == UNCHANGED <<idVars, relVars, cdVars, cutVars, catVars, dirVars, regVars,
                        config, loadResult, clientVars, objVars>>

\* lockf(fd, F_TLOCK, 0): the lock is taken unless another process holds it.
tryLockUnchecked(p) == TRUE

tryLock(p) == lockHolders \ {p} = {}

\* fs::remove
fsKeep(file) == file

fsRemove(file) == NoFlagFile

\* IOMgrMonitor::shouldRun: the IOMgr of the monitor is alive.
shouldRun(p) == iomgr[p] \in {"running", "initialized"}

\* siodbMain returns before it has opened the lock file.
MainReturn(p, code, cause) ==
    /\ mainPc' = [mainPc EXCEPT ![p] = "returned"]
    /\ exitCode' = [exitCode EXCEPT ![p] = code]
    /\ exitCause' = [exitCause EXCEPT ![p] = cause]

\* The block that holds lockFile, monitor and the connection managers is
\* left, by an exception or at its end: they are destroyed, then siodbMain
\* returns.
MainLeave(p, code, cause) ==
    /\ MainReturn(p, code, cause)
    /\ lockHolders' = lockHolders \ {p}
    /\ iomgr' = [iomgr EXCEPT ![p] = IF @ = "none" THEN "none" ELSE "exited"]

\* argc < 2
MainStart(p, arguments) ==
    /\ mainPc[p] = "start"
    /\ commandLine' = [commandLine EXCEPT ![p] = arguments]
    /\ IF arguments = ""
       THEN MainReturn(p, 1, "argc")
       ELSE /\ mainPc' = [mainPc EXCEPT ![p] = "configure"]
            /\ UNCHANGED <<exitCode, exitCause>>
    /\ UNCHANGED <<lockHolders, iomgrInitFlagFile, iomgr, observed, managers, removedFlag,
                   m_options>>
    /\ MainOnly

\* The first try block: the user check, the command line, the configuration.
MainConfigure(p, userOk, realpathOk) ==
    /\ mainPc[p] = "configure"
    /\ LET arguments == commandLine[p]
           loaded == load(config)
           cause == IF ~userOk THEN "userCheck"
                    ELSE IF ParseFails(arguments) THEN "unknownOption"
                    ELSE IF Help(arguments) THEN "help"
                    ELSE IF InstanceName(arguments) = "" THEN "noInstanceName"
                    ELSE IF loaded.status # "ok" THEN "load"
                    ELSE IF ~realpathOk THEN "realpath"
                    ELSE "none"
       IN /\ m_options' = (IF cause \in {"realpath", "none"} THEN loaded.options
                           ELSE m_options)
          /\ IF cause = "none"
             THEN /\ mainPc' = [mainPc EXCEPT
                                   ![p] = IF RunAsDaemon(arguments) THEN "daemon" ELSE "log"]
                  /\ UNCHANGED <<exitCode, exitCause>>
             ELSE MainReturn(p, IF cause = "help" THEN 0 ELSE 2, cause)
    /\ UNCHANGED <<commandLine, lockHolders, iomgrInitFlagFile, iomgr, observed, managers,
                   removedFlag>>
    /\ MainOnly

\* daemon(0, 0) and fork(): the process followed from here on is the parent,
\* which returns, or the child.
MainDaemon(p, outcome) ==
    /\ mainPc[p] = "daemon"
    /\ CASE outcome = "daemon fails" -> MainReturn(p, 3, "daemon")
         [] outcome = "fork fails" -> MainReturn(p, 3, "fork")
         [] outcome = "parent" -> MainReturn(p, 0, "parent")
         [] outcome = "child" -> /\ mainPc' = [mainPc EXCEPT ![p] = "log"]
                                 /\ UNCHANGED <<exitCode, exitCause>>
    /\ UNCHANGED <<commandLine, lockHolders, iomgrInitFlagFile, iomgr, observed, managers,
                   removedFlag, m_options>>
    /\ MainOnly

\* LogSubsystemGuard
MainLog(p, ok) ==
    /\ mainPc[p] = "log"
    /\ IF ok
       THEN /\ mainPc' = [mainPc EXCEPT ![p] = "open"]
            /\ UNCHANGED <<exitCode, exitCause>>
       ELSE MainReturn(p, 2, "logInit")
    /\ UNCHANGED <<commandLine, lockHolders, iomgrInitFlagFile, iomgr, observed, managers,
                   removedFlag, m_options>>
    /\ MainOnly

\* ::open(lockFilePath, O_CREAT | O_WRONLY | O_CLOEXEC)
MainOpenLockFile(p, ok) ==
    /\ mainPc[p] = "open"
    /\ IF ok
       THEN /\ mainPc' = [mainPc EXCEPT ![p] = "lock"]
            /\ UNCHANGED <<exitCode, exitCause, lockHolders, iomgr>>
       ELSE MainLeave(p, 4, "openLock")
    /\ UNCHANGED <<commandLine, iomgrInitFlagFile, observed, managers, removedFlag, m_options>>
    /\ MainOnly

\* lockFile.lock(F_TLOCK, 0)
MainLock(p) ==
    /\ mainPc[p] = "lock"
    /\ IF tryLock(p)
       THEN /\ lockHolders' = lockHolders \cup {p}
            /\ mainPc' = [mainPc EXCEPT ![p] = "flag"]
            /\ UNCHANGED <<exitCode, exitCause, iomgr>>
       ELSE MainLeave(p, 4, "lock")
    /\ UNCHANGED <<commandLine, iomgrInitFlagFile, observed, managers, removedFlag, m_options>>
    /\ MainOnly

\* if (fs::exists(iomgrInitFlagFilePath)) if (!fs::remove(...)) throw
MainRemoveFlagFile(p, removed) ==
    /\ mainPc[p] = "flag"
    /\ IF iomgrInitFlagFile.exists
       THEN IF removed
            THEN /\ iomgrInitFlagFile' = fsRemove(iomgrInitFlagFile)
                 /\ removedFlag' = [removedFlag EXCEPT ![p] = TRUE]
                 /\ mainPc' = [mainPc EXCEPT ![p] = "monitor"]
                 /\ UNCHANGED <<exitCode, exitCause, lockHolders, iomgr>>
            ELSE /\ MainLeave(p, 4, "removeFlag")
                 /\ UNCHANGED <<iomgrInitFlagFile, removedFlag>>
       ELSE /\ removed
            /\ mainPc' = [mainPc EXCEPT ![p] = "monitor"]
            /\ UNCHANGED <<exitCode, exitCause, lockHolders, iomgr, iomgrInitFlagFile,
                           removedFlag>>
    /\ UNCHANGED <<commandLine, observed, managers, m_options>>
    /\ MainOnly

\* siodb::IOMgrMonitor monitor(instanceOptions): the monitor runs IOMgr.
MainStartMonitor(p) ==
    /\ mainPc[p] = "monitor"
    /\ iomgr' = [iomgr EXCEPT ![p] = "running"]
    /\ mainPc' = [mainPc EXCEPT ![p] = "wait"]
    /\ UNCHANGED <<commandLine, exitCode, exitCause, lockHolders, iomgrInitFlagFile, observed,
                   managers, removedFlag, m_options>>
    /\ MainOnly

\* IOMgr has initialized the database and creates the flag file.
IomgrInitialized(p) ==
    /\ iomgr[p] = "running"
    /\ iomgr' = [iomgr EXCEPT ![p] = "initialized"]
    /\ iomgrInitFlagFile' = [exists |-> TRUE, run |-> p]
    /\ UNCHANGED <<mainPc, commandLine, exitCode, exitCause, lockHolders, observed, managers,
                   removedFlag, m_options>>
    /\ MainOnly

\* IOMgr exits.
IomgrExits(p) ==
    /\ shouldRun(p)
    /\ iomgr' = [iomgr EXCEPT ![p] = "exited"]
    /\ UNCHANGED <<mainPc, commandLine, exitCode, exitCause, lockHolders, iomgrInitFlagFile,
                   observed, managers, removedFlag, m_options>>
    /\ MainOnly

waitOnlyForFlagFile(p) == ~iomgrInitFlagFile.exists

\* The condition of the loop: !fs::exists(iomgrInitFlagFilePath) &&
\* monitor.shouldRun()
waitCondition(p) == ~iomgrInitFlagFile.exists /\ shouldRun(p)

\* while (!fs::exists(iomgrInitFlagFilePath) && monitor.shouldRun()) sleep:
\* the evaluation of the condition that ends the loop.
MainWaitEnds(p) ==
    /\ mainPc[p] = "wait"
    /\ ~waitCondition(p)
    /\ observed' = [observed EXCEPT ![p].flag = iomgrInitFlagFile.exists,
                                    ![p].run = iomgrInitFlagFile.run]
    /\ mainPc' = [mainPc EXCEPT ![p] = "check"]
    /\ UNCHANGED <<commandLine, exitCode, exitCause, lockHolders, iomgrInitFlagFile, iomgr,
                   managers, removedFlag, m_options>>
    /\ MainOnly

\* if (!monitor.shouldRun()) throw std::runtime_error("Iomgr exited unexpectedly")
MainCheck(p) ==
    /\ mainPc[p] = "check"
    /\ IF shouldRun(p)
       THEN /\ observed' = [observed EXCEPT ![p].alive = TRUE]
            /\ mainPc' = [mainPc EXCEPT ![p] = "managers"]
            /\ UNCHANGED <<exitCode, exitCause, lockHolders, iomgr>>
       ELSE /\ MainLeave(p, 4, "iomgrExited")
            /\ UNCHANGED observed
    /\ UNCHANGED <<commandLine, iomgrInitFlagFile, managers, removedFlag, m_options>>
    /\ MainOnly

\* The connection managers that the options ask for, in the order of their
\* creation.
WantedManagers ==
    <<"admin">> \o (IF m_options.m_ipv4port # 0 THEN <<"ipv4">> ELSE <<>>)
                \o (IF m_options.m_ipv6port # 0 THEN <<"ipv6">> ELSE <<>>)

\* The connection managers are created; the constructor of the one after
\* the first `created` throws, if that is not all of them.
MainCreateManagers(p, created) ==
    /\ mainPc[p] = "managers"
    /\ created <= Len(WantedManagers)
    /\ managers' = [managers EXCEPT ![p] = SubSeq(WantedManagers, 1, created)]
    /\ IF created = Len(WantedManagers)
       THEN /\ mainPc' = [mainPc EXCEPT ![p] = "serving"]
            /\ UNCHANGED <<exitCode, exitCause, lockHolders, iomgr>>
       ELSE MainLeave(p, 4, "managers")
    /\ UNCHANGED <<commandLine, iomgrInitFlagFile, observed, removedFlag, m_options>>
    /\ MainOnly

\* siodb::utils::waitForExitEvent() returns.
MainExitEvent(p) ==
    /\ mainPc[p] = "serving"
    /\ MainLeave(p, 0, "signal")
    /\ UNCHANGED <<commandLine, iomgrInitFlagFile, observed, managers, removedFlag, m_options>>
    /\ MainOnly

MainNext ==
    \/ \E p \in Servers, arguments \in CommandLines : MainStart(p, arguments)
    \/ \E p \in Servers, userOk \in BOOLEAN, realpathOk \in BOOLEAN :
           MainConfigure(p, userOk, realpathOk)
    \/ \E p \in Servers, outcome \in {"daemon fails", "fork fails", "parent", "child"} :
           MainDaemon(p, outcome)
    \/ \E p \in Servers, ok \in BOOLEAN : MainLog(p, ok)
    \/ \E p \in Servers, ok \in BOOLEAN : MainOpenLockFile(p, ok)
    \/ \E p \in Servers : MainLock(p)
    \/ \E p \in Servers, removed \in BOOLEAN : MainRemoveFlagFile(p, removed)
    \/ \E p \in Servers : MainStartMonitor(p)
    \/ \E p \in Servers : IomgrInitialized(p)
    \/ \E p \in Servers : IomgrExits(p)
    \/ \E p \in Servers : MainWaitEnds(p)
    \/ \E p \in Servers : MainCheck(p)
    \/ \E p \in Servers, created \in 0..3 : MainCreateManagers(p, created)
    \/ \E p \in Servers : MainExitEvent(p)

-----------------------------------------------------------------------------
(* executeCommandOnServer                                                   *)
(*                                                                          *)
(* The server is whatever sits at the other end of the connection: each     *)
(* readMessage returns any response.  What the client prints is left out.   *)

MaxResponses == 3

RequestIds == {1, 2}

\* ServerResponse: the fields the loop decides on.  status is whether one of
\* its messages has a status code other than 0.
ServerResponses ==
    [request_id : RequestIds, response_id : 0..(MaxResponses - 1),
     response_count : 0..MaxResponses, status : {"ok", "sqlError"},
     column_description_size : {0, 1}]

sqlErrorIgnored(response) == FALSE

\* sqlErrorOccurred |= message.status_code() != 0
sqlErrorOccurred(response) == response.status = "sqlError"

\* if (responseId == 0) { responseCount = response.response_count();
\*                        if (responseCount == 0) responseCount = 1; }
responseCountOfEach(response, id, count) ==
    IF response.response_count = 0 THEN 1 ELSE response.response_count

captureResponseCount(response, id, count) ==
    IF id = 0
    THEN IF response.response_count = 0 THEN 1 ELSE response.response_count
    ELSE count

ClientOnly == UNCHANGED <<idVars, relVars, cdVars, cutVars, catVars, dirVars, regVars,
                          optVars, mainVars, objVars>>

\* The call: the command is written to the connection.
ExecuteCommandOnServer(id, stop) ==
    /\ clientPc = "idle"
    /\ requestId' = id
    /\ stopOnError' = stop
    /\ responseId' = 0
    /\ responseCount' = 0
    /\ clientPc' = "read"
    /\ UNCHANGED <<received, rowDataRead, clientError>>
    /\ ClientOnly

\* One pass of the do-while loop over the response that readMessage returns.
ReadResponse(response) ==
    /\ clientPc = "read"
    /\ received' = Append(received, response)
    /\ IF response.request_id # requestId
       THEN /\ clientPc' = "thrown"
            /\ clientError' = "Wrong request ID in the server response"
            /\ UNCHANGED <<responseId, responseCount, rowDataRead>>
       ELSE IF response.response_id # responseId
       THEN /\ clientPc' = "thrown"
            /\ clientError' = "Wrong response ID in the server response"
            /\ UNCHANGED <<responseId, responseCount, rowDataRead>>
       ELSE /\ responseCount' = captureResponseCount(response, responseId, responseCount)
            /\ responseId' = responseId + 1
            /\ rowDataRead' =
                   IF ~sqlErrorOccurred(response) /\ response.column_description_size > 0
                   THEN rowDataRead \cup {Len(received')}
                   ELSE rowDataRead
            /\ IF sqlErrorOccurred(response) /\ stopOnError
               THEN clientPc' = "thrown" /\ clientError' = "SQL error"
               ELSE /\ clientPc' = (IF responseId' < responseCount' THEN "read" ELSE "returned")
                    /\ UNCHANGED clientError
    /\ UNCHANGED <<requestId, stopOnError>>
    /\ ClientOnly

\* readMessage, or the reading of the rows of a data set, fails.
ReadFails ==
    /\ clientPc = "read"
    /\ clientPc' = "thrown"
    /\ clientError' = "Can't read from server"
    /\ UNCHANGED <<requestId, stopOnError, responseId, responseCount, received,
                   rowDataRead>>
    /\ ClientOnly

ClientNext ==
    \/ \E id \in RequestIds, stop \in BOOLEAN : ExecuteCommandOnServer(id, stop)
    \/ \E response \in ServerResponses : ReadResponse(response)
    \/ ReadFails

-----------------------------------------------------------------------------
(* Table objects: getTableChecked, getTableUnlocked, loadTableUnlocked      *)

\* The number of Table objects that the model constructs.
MaxTableObjects == 4

ObjThreads == {1, 2}

\* The table ids that have a record in m_tableRegistry: one more than the
\* table cache holds, so that a load can evict.
RegisteredTableIds == 1..(CacheCapacity + 1)

\* The ids a caller asks for: the registered ones and one without a record.
AskedTableIds == RegisteredTableIds \cup {0}

\* m_tableCache.get(id): the slot that holds the id, if any.
SlotsOf(cache, id) == {i \in 1..Len(cache) : cache[i].id = id}

\* get() moves the slot that was hit to the most recently used end.
SlotToEnd(cache, i) ==
    Append(SelectSeq(cache, LAMBDA slot : slot # cache[i]), cache[i])

\* m_tableCache.emplace(id, table): the least recently used slot is dropped
\* when the cache is at capacity; the handles that callers hold stay.
EmplaceSlot(cache, slot) ==
    IF Len(cache) >= CacheCapacity THEN Append(Tail(cache), slot)
    ELSE Append(cache, slot)

\* loadTableUnlocked: std::make_shared<Table>(*this, tableRecord) constructs
\* a new object, which is put into the cache and returned.
loadTableObject(objects, id) ==
    LET table == [id |-> id, object |-> objects.constructed + 1] IN
    [status |-> "ok", table |-> table,
     objects |-> [objects EXCEPT !.cache = EmplaceSlot(objects.cache, table),
                                 !.constructed = objects.constructed + 1]]

\* getTableUnlocked(tableId): nullptr without a record, the cached object
\* on a hit, a newly loaded object on a miss.
getTableObject(objects, id) ==
    IF id \notin RegisteredTableIds
    THEN [status |-> "TableDoesNotExist", table |-> [id |-> 0, object |-> 0],
          objects |-> objects]
    ELSE IF SlotsOf(objects.cache, id) # {}
    THEN LET i == CHOOSE k \in SlotsOf(objects.cache, id) : TRUE IN
         [status |-> "ok", table |-> objects.cache[i],
          objects |-> [objects EXCEPT !.cache = SlotToEnd(objects.cache, i)]]
    ELSE loadTableObject(objects, id)

ObjOnly ==
    UNCHANGED <<idVars, relVars, cdVars, cutVars, catVars, dirVars, regVars,
                optVars, mainVars, clientVars, latestResult, auth, callStacks>>

\* getTableChecked(tableId), the whole call under its lock_guard: the
\* caller keeps the shared_ptr that is returned.
ObjGetTableChecked(t, tableId) ==
    /\ tableObjects.constructed < MaxTableObjects
    /\ LET r == getTableObject(tableObjects, tableId) IN
       tableObjects' =
           IF r.status = "ok"
           THEN [r.objects EXCEPT !.handles[t] = @ \cup {r.table},
                                  !.thrown[t] = "none"]
           ELSE [r.objects EXCEPT !.thrown[t] = "kErrorTableDoesNotExist"]
    /\ ObjOnly

\* A caller's shared_ptr goes out of scope.
ObjRelease(t, handle) ==
    /\ handle \in tableObjects.handles[t]
    /\ tableObjects' = [tableObjects EXCEPT !.handles[t] = @ \ {handle}]
    /\ ObjOnly

ObjNext ==
    \/ \E t \in ObjThreads, tableId \in AskedTableIds : ObjGetTableChecked(t, tableId)
    \/ \E t \in ObjThreads : \E handle \in tableObjects.handles[t] : ObjRelease(t, handle)

\* The Table objects that some shared_ptr keeps alive.
LiveTables ==
    {tableObjects.cache[i] : i \in 1..Len(tableObjects.cache)}
        \cup UNION {tableObjects.handles[t] : t \in ObjThreads}

-----------------------------------------------------------------------------
(* Database::getLatestColumnDefinitionIdForColumn                           *)

\* Width in bits of a column id in the model (std::uint64_t in the code).
ColumnIdWidth == 2

\* The ids of the column definitions that get registered.
MaxColumnDefinitions == 3

ColumnIdModulus == 2 ^ ColumnIdWidth

ColumnIds == 0..(ColumnIdModulus - 1)

ColumnDefinitionIds == 1..MaxColumnDefinitions

\* The order of the index byColumnIdAndId: by column id, then by id.
KeyLess(a, b) == a[1] < b[1] \/ (a[1] = b[1] /\ a[2] < b[2])

KeyOf(record) == <<record.m_columnId, record.m_id>>

\* index.lower_bound(key) is the first record not less than key: the
\* records in front of that position.
BeforeLowerBound(registry, key) == {r \in registry : KeyLess(KeyOf(r), key)}

\* --it: the last record in front of the position.
LastOf(records) ==
    CHOOSE r \in records : \A other \in records \ {r} : KeyLess(KeyOf(other), KeyOf(r))

\* columnId + 1 in the width of a column id.
NextColumnId(columnId) == (columnId + 1) % ColumnIdModulus

getLatestColumnDefinitionIdForColumn(registry, tableId, columnId) ==
    LET before == BeforeLowerBound(registry, <<NextColumnId(columnId), 0>>) IN
    IF registry # {} /\ before # {} /\ LastOf(before).m_columnId = columnId
    THEN [status |-> "ok", id |-> LastOf(before).m_id, columnId |-> columnId]
    ELSE [status |-> "kErrorMissingColumnDefinitionsForColumn", id |-> 0,
          columnId |-> columnId]

LatestOnly ==
    UNCHANGED <<idVars, relVars, cdVars, cutVars, catVars, dirVars,
                m_columnSetRegistry, m_indexRegistry, optVars, mainVars, clientVars,
                tableObjects, auth, callStacks>>

\* registerColumnDefinition: a definition of a column enters the registry;
\* the result of an earlier lookup is gone.
LatestRegister(id, columnId) ==
    /\ \A r \in m_columnDefinitionRegistry : r.m_id # id
    /\ m_columnDefinitionRegistry' =
           m_columnDefinitionRegistry \cup {[m_id |-> id, m_columnId |-> columnId]}
    /\ latestResult' = [status |-> "none", id |-> 0, columnId |-> 0]
    /\ LatestOnly

\* getLatestColumnDefinitionIdForColumn(tableId, columnId), the whole call
\* under its lock_guard.
LatestGet(tableId, columnId) ==
    /\ latestResult' =
           getLatestColumnDefinitionIdForColumn(m_columnDefinitionRegistry, tableId, columnId)
    /\ UNCHANGED m_columnDefinitionRegistry
    /\ LatestOnly

LatestNext ==
    \/ \E id \in ColumnDefinitionIds, columnId \in ColumnIds : LatestRegister(id, columnId)
    \/ \E columnId \in ColumnIds : LatestGet(1, columnId)

-----------------------------------------------------------------------------
(* authenticate                                                             *)

UserNames == {"root", "user"}

\* Identity keys: one that parses and signs, one that does not.
IdentityKeys == {"key", "notAKey"}

\* The challenges that the server sends.
MaxChallenge == 3

Challenges == 1..MaxChallenge

\* BeginSessionResponse: session_started, the optional message, challenge.
BeginSessionResponses ==
    [type : {"BeginSessionResponse"}, session_started : BOOLEAN,
     has_message : BOOLEAN, challenge : Challenges]

\* ClientAuthenticationResponse: authenticated, the optional message.
ClientAuthenticationResponses ==
    [type : {"ClientAuthenticationResponse"}, authenticated : BOOLEAN,
     has_message : BOOLEAN]

sessionAlwaysStarted(response) == TRUE

\* if (!beginSessionResponse.session_started()) throw
sessionStarted(response) == response.session_started

\* key.signMessage(challenge)
signMessage(key, challenge) == <<key, challenge>>

AuthOnly ==
    UNCHANGED <<idVars, relVars, cdVars, cutVars, catVars, dirVars, regVars,
                optVars, mainVars, clientVars, tableObjects, latestResult, callStacks>>

\* authenticate is called: the begin-session request is written.
Authenticate(identityKey, userName) ==
    /\ auth.pc = "idle"
    /\ auth' = [auth EXCEPT
           !.pc = "readBegin", !.identityKey = identityKey,
           !.wire = <<[type |-> "BeginSessionRequest", user_name |-> userName]>>]
    /\ AuthOnly

\* The begin-session response is read: the call raises unless the session
\* has started.
AuthReadBeginSession(response) ==
    /\ auth.pc = "readBegin"
    /\ auth' = [auth EXCEPT
           !.wire = Append(@, response),
           !.pc = IF sessionStarted(response) THEN "sign" ELSE "thrown",
           !.error = IF sessionStarted(response) THEN "none"
                     ELSE IF response.has_message THEN "Begin session error"
                     ELSE "Begin session unknown error"]
    /\ AuthOnly

\* The challenge is signed with the identity key and the authentication
\* request is written; a key that does not parse raises.
AuthSign ==
    /\ auth.pc = "sign"
    /\ auth' =
           IF auth.identityKey = "key"
           THEN [auth EXCEPT
                    !.pc = "readAuth",
                    !.wire = Append(@, [type |-> "ClientAuthenticationRequest",
                                        signature |-> signMessage(auth.identityKey,
                                                                  auth.wire[2].challenge)])]
           ELSE [auth EXCEPT !.pc = "thrown", !.error = "key error"]
    /\ AuthOnly

\* The authentication response is read: its message goes to std::cerr, the
\* call raises unless the user is authenticated.
AuthReadAuthentication(response) ==
    /\ auth.pc = "readAuth"
    /\ auth' = [auth EXCEPT
           !.wire = Append(@, response),
           !.cerr = response.has_message,
           !.pc = IF response.authenticated THEN "returned" ELSE "thrown",
           !.error = IF response.authenticated THEN "none"
                     ELSE "User authentication error"]
    /\ AuthOnly

\* readMessage raises: the connection failed or the message is malformed.
AuthReadFails ==
    /\ auth.pc \in {"readBegin", "readAuth"}
    /\ auth' = [auth EXCEPT !.pc = "thrown", !.error = "read error"]
    /\ AuthOnly

AuthNext ==
    \/ \E identityKey \in IdentityKeys, userName \in UserNames :
           Authenticate(identityKey, userName)
    \/ \E response \in BeginSessionResponses : AuthReadBeginSession(response)
    \/ AuthSign
    \/ \E response \in ClientAuthenticationResponses : AuthReadAuthentication(response)
    \/ AuthReadFails

\* The positions on the connection of the messages of a type.
WirePositions(type) == {i \in 1..Len(auth.wire) : auth.wire[i].type = type}

-----------------------------------------------------------------------------
(* Calls inside calls: which function takes m_mutex, which one calls which  *)

NestThreads == {1, 2}

\* The functions that begin with std::lock_guard lock(m_mutex).
LockingFunctions ==
    {"getTableChecked", "createConstraintDefinition", "findOrCreateConstraintDefinition",
     "getConstraintDefinitionChecked", "createConstraint", "createUserTable", "createTable",
     "createTableUnlocked", "registerTable"}

\* The functions whose name ends in Unlocked.
UnlockedFunctions ==
    {"getTableUnlocked", "loadTableUnlocked", "createTableUnlocked",
     "createConstraintDefinitionUnlocked", "getConstraintDefinitionUnlocked",
     "loadConstraintDefinitionUnlocked"}

\* The functions that other components call.
PublicFunctions ==
    {"getTableChecked", "createConstraintDefinition", "findOrCreateConstraintDefinition",
     "getConstraintDefinitionChecked", "createConstraint", "createUserTable"}

\* The functions that can end in throwDatabaseError or a throw.
RaisingFunctions ==
    {"getTableChecked", "getConstraintDefinitionChecked", "createConstraint",
     "createUserTable", "createTableUnlocked"}

\* The calls that a function makes to functions of the model, in order: one
\* sequence for each way through the function.
Callees(function) ==
    CASE function = "getTableChecked" -> {<<"getTableUnlocked">>}
      [] function = "getTableUnlocked" -> {<<>>, <<"loadTableUnlocked">>}
      [] function = "createConstraintDefinition" -> {<<"createConstraintDefinitionUnlocked">>}
      [] function = "createConstraintDefinitionUnlocked" ->
             {<<>>, <<"loadConstraintDefinitionUnlocked">>}
      [] function = "findOrCreateConstraintDefinition" ->
             {<<>>, <<"getConstraintDefinitionChecked">>}
      [] function = "getConstraintDefinitionChecked" -> {<<"getConstraintDefinitionUnlocked">>}
      [] function = "getConstraintDefinitionUnlocked" ->
             {<<>>, <<"loadConstraintDefinitionUnlocked">>}
      [] function = "createConstraint" -> {<<"getConstraintDefinitionChecked">>}
      [] function = "createUserTable" -> {<<>>, <<"createTable">>}
      [] function = "createTable" -> {<<"createTableUnlocked">>}
      [] function = "createTableUnlocked" -> {<<>>, <<"registerTable">>}
      [] OTHER -> {<<>>}

\* std::mutex::lock: the caller gets the mutex when nobody holds it.
lockPlain(mutex, t) == mutex.owner = 0

\* m_mutex.lock(): the caller gets the mutex when nobody else holds it; a
\* thread that holds it already takes it once more.
lock(mutex, t) == mutex.owner \in {0, t}

Locked(mutex, t) == [owner |-> t, count |-> mutex.count + 1]

\* m_mutex.unlock(): the mutex is free after as many unlocks as locks.
Unlocked(mutex, times) ==
    IF mutex.count - times = 0 THEN [owner |-> 0, count |-> 0]
    ELSE [mutex EXCEPT !.count = @ - times]

TopFrame(t) == callStacks.stack[t][Len(callStacks.stack[t])]

\* The call on top of the thread's stack is past its lock_guard, if any.
InBody(t) ==
    /\ callStacks.stack[t] # <<>>
    /\ TopFrame(t).function \in LockingFunctions => TopFrame(t).holds

\* The number of lock_guards of the thread's calls.
RECURSIVE Guards(_)
Guards(frames) ==
    IF frames = <<>> THEN 0
    ELSE (IF Head(frames).holds THEN 1 ELSE 0) + Guards(Tail(frames))

NewFrame(t, function, path) ==
    [function |-> function, holds |-> FALSE, todo |-> path,
     callerHolds |-> callStacks.m_mutex.owner = t]

NestOnly ==
    UNCHANGED <<idVars, relVars, cdVars, cutVars, catVars, dirVars, regVars,
                optVars, mainVars, clientVars, tableObjects, latestResult, auth>>

\* Another component calls a function of the database.
NestCall(t, function, path) ==
    /\ callStacks.stack[t] = <<>>
    /\ callStacks' = [callStacks EXCEPT !.stack[t] = <<NewFrame(t, function, path)>>]
    /\ NestOnly

\* std::lock_guard lock(m_mutex) of the call on top.
NestLock(t) ==
    /\ callStacks.stack[t] # <<>>
    /\ TopFrame(t).function \in LockingFunctions
    /\ ~TopFrame(t).holds
    /\ lock(callStacks.m_mutex, t)
    /\ callStacks' = [callStacks EXCEPT
           !.m_mutex = Locked(@, t),
           !.stack[t][Len(callStacks.stack[t])].holds = TRUE]
    /\ NestOnly

\* The call on top makes its next call.
NestStep(t, path) ==
    /\ InBody(t)
    /\ TopFrame(t).todo # <<>>
    /\ path \in Callees(Head(TopFrame(t).todo))
    /\ callStacks' = [callStacks EXCEPT
           !.stack[t] = Append([@ EXCEPT ![Len(@)].todo = Tail(@)],
                               NewFrame(t, Head(TopFrame(t).todo), path))]
    /\ NestOnly

\* The call on top returns: its lock_guard, if any, unlocks.
NestReturn(t) ==
    /\ InBody(t)
    /\ TopFrame(t).todo = <<>>
    /\ callStacks' = [callStacks EXCEPT
           !.m_mutex = IF TopFrame(t).holds THEN Unlocked(@, 1) ELSE @,
           !.stack[t] = SubSeq(@, 1, Len(@) - 1)]
    /\ NestOnly

\* The call on top throws; no function of the model catches: every call of
\* the thread is left and every lock_guard of the thread unlocks.
NestRaise(t) ==
    /\ InBody(t)
    /\ TopFrame(t).todo = <<>>
    /\ TopFrame(t).function \in RaisingFunctions
    /\ callStacks' = [callStacks EXCEPT
           !.m_mutex = IF Guards(callStacks.stack[t]) > 0
                       THEN Unlocked(@, Guards(callStacks.stack[t])) ELSE @,
           !.stack[t] = <<>>]
    /\ NestOnly

\* What a thread does by itself once it is inside a call.
NestProgress(t) ==
    \/ NestLock(t)
    \/ \E path \in UNION {Callees(function) : function \in LockingFunctions
                                                  \cup UnlockedFunctions} :
           NestStep(t, path)
    \/ NestReturn(t)
    \/ NestRaise(t)

NestNext ==
    \/ \E t \in NestThreads, function \in PublicFunctions :
           \E path \in Callees(function) : NestCall(t, function, path)
    \/ \E t \in NestThreads : NestProgress(t)

\* The calls of all threads.
AllFrames ==
    UNION {{callStacks.stack[t][i] : i \in 1..Len(callStacks.stack[t])} : t \in NestThreads}

-----------------------------------------------------------------------------
(* Tables and constraint definitions together                               *)

\* Catalog calls of both groups started so far stay below the bound.
CallsLeft == cdCalls + catCalls < MaxCatCalls

CacheCdLock(t, call) == CallsLeft /\ CdLock(t, call)

CacheCreateTableCall(t, name) == CallsLeft /\ CreateTableCall(t, name)

CacheGetTableByIdCall(t, id) == CallsLeft /\ GetTableByIdCall(t, id)

CacheNext ==
    \/ \E t \in CdThreads, call \in Calls : CacheCdLock(t, call)
    \/ \E t \in CdThreads : CreateScan(t)
    \/ \E t \in CdThreads : CreateNew(t)
    \/ \E t \in CdThreads : FindScan(t)
    \/ \E t \in CdThreads : FindNew(t)
    \/ \E t \in CdThreads : CdUnlock(t)
    \/ CdLoadSystemTable
    \/ \E t \in CatThreads, name \in TabNames : CacheCreateTableCall(t, name)
    \/ \E t \in CatThreads, id \in TabIds : CacheGetTableByIdCall(t, id)
    \/ \E t \in CatThreads : CatLock(t)
    \/ \E t \in CatThreads : CreateTableLocked(t)
    \/ \E t \in CatThreads : GetTableByIdLocked(t)
    \/ \E t \in CatThreads : CatUnlock(t)
    \/ \E t \in CatThreads : CatReturn(t)

-----------------------------------------------------------------------------
(* Specifications                                                          *)

\* The identifier service, from a database whose allocators are unused.
InitIds == IdInit /\ RelInit({0}) /\ CdInit /\ CutInit({}) /\ CatInit({})
    /\ DirInit({FALSE}) /\ RegInit /\ OuterIdle

SpecIds == InitIds /\ [][IdNext]_vars

\* release(), from a database in use by up to MaxUseCount users.
InitRelease == IdInit /\ RelInit(0..MaxUseCount) /\ CdInit /\ CutInit({}) /\ CatInit({})
    /\ DirInit({FALSE}) /\ RegInit /\ OuterIdle

SpecRelease == InitRelease /\ [][RelNext]_vars

\* Constraint-definition interning, from a database in bootstrap.
InitCd == IdInit /\ RelInit({0}) /\ CdInit /\ CutInit({}) /\ CatInit({})
    /\ DirInit({FALSE}) /\ RegInit /\ OuterIdle

SpecCd == InitCd /\ [][CdNext]_vars

\* createUserTable on an open database: every system table is loaded and no
\* user id has been taken.
IdOpen ==
    /\ m_tmpTridCounters = [k \in Kinds |-> 0]
    /\ m_sysTables = Kinds
    /\ m_lastSystemTrid = [k \in Kinds |-> 0]
    /\ m_lastUserTrid = [k \in Kinds |-> FirstUserTrid(k) - 1]
    /\ minted = {}
    /\ lastAlloc = NoAlloc

InitCut == IdOpen /\ RelInit({0}) /\ CdInit /\ CutInit({"n"}) /\ CatInit({})
    /\ DirInit({FALSE}) /\ RegInit /\ OuterIdle

SpecCut == InitCut /\ [][CutNext]_vars

\* Table creation and lookup by several threads on an open database.
InitTab == IdOpen /\ RelInit({0}) /\ CdInit /\ CutInit({}) /\ CatInit({})
    /\ DirInit({FALSE}) /\ RegInit /\ OuterIdle

SpecTab == InitTab /\ [][TabNext]_vars

\* createConstraint by several threads on an open database; the name "n" may
\* be in use in this database and in the second one.
InitCon == IdOpen /\ RelInit({0}) /\ CdInit /\ CutInit({"n"}) /\ CatInit({"n"})
    /\ DirInit({FALSE}) /\ RegInit /\ OuterIdle

SpecCon == InitCon /\ [][ConNext]_vars

\* Every system table but the one of the constraint definitions is loaded:
\* constraint definitions are still given bootstrap ids.
IdOpenButConstraintDefinitions ==
    /\ m_tmpTridCounters = [k \in Kinds |-> 0]
    /\ m_sysTables = Kinds \ {"ConstraintDefinition"}
    /\ m_lastSystemTrid = [k \in Kinds |-> 0]
    /\ m_lastUserTrid = [k \in Kinds |->
           IF k = "ConstraintDefinition" THEN 0 ELSE FirstUserTrid(k) - 1]
    /\ minted = {}
    /\ lastAlloc = NoAlloc

InitCache ==
    IdOpenButConstraintDefinitions /\ RelInit({0}) /\ CdInit /\ CutInit({}) /\ CatInit({})
    /\ DirInit({FALSE}) /\ RegInit /\ OuterIdle

SpecCache == InitCache /\ [][CacheNext]_vars

\* The data directory of a database that has not been created.
InitDir ==
    IdInit /\ RelInit({0}) /\ CdInit /\ CutInit({}) /\ CatInit({})
    /\ DirInit(BOOLEAN) /\ RegInit /\ OuterIdle

SpecDir == InitDir /\ [][DirNext]_vars

\* An open database whose registries are still empty.
InitReg ==
    IdOpen /\ RelInit({0}) /\ CdInit /\ CutInit({}) /\ CatInit({})
    /\ DirInit({FALSE}) /\ RegInit /\ OuterIdle

SpecReg == InitReg /\ [][RegNext]_vars

SpecUpd == InitReg /\ [][UpdNext]_vars

\* A database whose system tables are not available yet.
InitMutex ==
    IdInit /\ RelInit({0}) /\ CdInit /\ CutInit({}) /\ CatInit({})
    /\ DirInit({FALSE}) /\ RegInit /\ OuterIdle

SpecMutex == InitMutex /\ [][MutexNext]_vars

\* load is about to be called on a configuration file.
InitLoad ==
    IdInit /\ RelInit({0}) /\ CdInit /\ CutInit({}) /\ CatInit({})
    /\ DirInit({FALSE}) /\ RegInit
    /\ OptInit(PortConfigs \cup ClientConfigs \cup GeneralConfigs,
               {BaseConfig, [BaseConfig EXCEPT !.ipv6_port = kMaxPortNumber]})
    /\ MainIdle /\ ClientIdle /\ ObjIdle

SpecLoad == InitLoad /\ [][Load]_vars

\* Server processes are about to be started on an instance whose flag file
\* is absent or left by an earlier run.
InitMain ==
    IdInit /\ RelInit({0}) /\ CdInit /\ CutInit({}) /\ CatInit({})
    /\ DirInit({FALSE}) /\ RegInit
    /\ OptInit({BaseConfig, [BaseConfig EXCEPT !.ipv6_port = kMinPortNumber],
                [BaseConfig EXCEPT !.data_dir = <<>>]}, {BaseConfig})
    /\ MainInit({NoFlagFile, StaleFlagFile})
    /\ ClientIdle /\ ObjIdle

SpecMain == InitMain /\ [][MainNext]_vars

\* The server processes that compete for the instance; any other process
\* was started without arguments and has returned.
FairServers == {1, 2}

\* The server processes are scheduled: the loop that waits for IOMgr
\* evaluates its condition again after every sleep, and the statement behind
\* the loop runs.  IOMgr owes nothing.
InitMainFair ==
    IdInit /\ RelInit({0}) /\ CdInit /\ CutInit({}) /\ CatInit({})
    /\ DirInit({FALSE}) /\ RegInit
    /\ OptInit({BaseConfig}, {BaseConfig})
    /\ mainPc = [p \in Servers |-> IF p \in FairServers THEN "start" ELSE "returned"]
    /\ commandLine = [p \in Servers |-> ""]
    /\ exitCode = [p \in Servers |-> IF p \in FairServers THEN 0 ELSE 1]
    /\ exitCause = [p \in Servers |-> IF p \in FairServers THEN "none" ELSE "argc"]
    /\ lockHolders = {}
    /\ iomgrInitFlagFile \in {NoFlagFile, StaleFlagFile}
    /\ iomgr = [p \in Servers |-> "none"]
    /\ observed = [p \in Servers |-> NothingObserved]
    /\ managers = [p \in Servers |-> <<>>]
    /\ removedFlag = [p \in Servers |-> FALSE]
    /\ ClientIdle /\ ObjIdle

SpecMainFair ==
    /\ InitMainFair
    /\ [][MainNext]_vars
    /\ \A p \in Servers : WF_vars(MainWaitEnds(p)) /\ WF_vars(MainCheck(p))

\* The client is connected and about to execute a command.
InitClient ==
    IdInit /\ RelInit({0}) /\ CdInit /\ CutInit({}) /\ CatInit({})
    /\ DirInit({FALSE}) /\ RegInit /\ OuterIdle

SpecClient == InitClient /\ [][ClientNext]_vars

\* The database is open, no table is loaded yet.
InitObj ==
    IdInit /\ RelInit({0}) /\ CdInit /\ CutInit({}) /\ CatInit({})
    /\ DirInit({FALSE}) /\ RegInit /\ OptIdle /\ MainIdle /\ ClientIdle
    /\ tableObjects = [cache |-> <<>>, handles |-> [t \in ObjThreads |-> {}],
                       thrown |-> [t \in ObjThreads |-> "none"], constructed |-> 0]
    /\ latestResult = <<>> /\ auth = <<>> /\ callStacks = <<>>

SpecObj == InitObj /\ [][ObjNext]_vars

\* The database is open, no column definition is registered.
InitLatest ==
    IdInit /\ RelInit({0}) /\ CdInit /\ CutInit({}) /\ CatInit({})
    /\ DirInit({FALSE}) /\ RegInit /\ OptIdle /\ MainIdle /\ ClientIdle
    /\ tableObjects = <<>> /\ auth = <<>> /\ callStacks = <<>>
    /\ latestResult = [status |-> "none", id |-> 0, columnId |-> 0]

SpecLatest == InitLatest /\ [][LatestNext]_vars

\* The client is connected and about to authenticate.
InitAuth ==
    IdInit /\ RelInit({0}) /\ CdInit /\ CutInit({}) /\ CatInit({})
    /\ DirInit({FALSE}) /\ RegInit /\ OptIdle /\ MainIdle /\ ClientIdle
    /\ tableObjects = <<>> /\ latestResult = <<>> /\ callStacks = <<>>
    /\ auth = [pc |-> "idle", identityKey |-> "key", wire |-> <<>>, cerr |-> FALSE,
               error |-> "none"]

SpecAuth == InitAuth /\ [][AuthNext]_vars

\* The database is open, no thread is inside a catalog function.
InitNest ==
    IdInit /\ RelInit({0}) /\ CdInit /\ CutInit({}) /\ CatInit({})
    /\ DirInit({FALSE}) /\ RegInit /\ OptIdle /\ MainIdle /\ ClientIdle
    /\ tableObjects = <<>> /\ latestResult = <<>> /\ auth = <<>>
    /\ callStacks = [m_mutex |-> [owner |-> 0, count |-> 0],
                     stack |-> [t \in NestThreads |-> <<>>]]

SpecNest == InitNest /\ [][NestNext]_vars

\* The threads are scheduled: a thread that can go on does.  Nothing makes
\* another component call the database.
SpecNestFair == SpecNest /\ \A t \in NestThreads : WF_vars(NestProgress(t))

-----------------------------------------------------------------------------
(* Claims about the identifier service                                     *)

\* C5: every id minted with system = TRUE is below the first-user threshold
\* of its kind and every id minted with system = FALSE is at or above it.
C5_IdsStayInPartition ==
    lastAlloc.status = "ok" =>
        IF lastAlloc.system THEN lastAlloc.id < FirstUserTrid(lastAlloc.kind)
                            ELSE lastAlloc.id >= FirstUserTrid(lastAlloc.kind)

\* C6: every id returned is unique within its kind, and the ids of a branch
\* (system, user) never decrease, over the whole run including the handover.
C6_IdsUniqueAndMonotonic ==
    [][(lastAlloc'.tick # lastAlloc.tick /\ lastAlloc'.status = "ok") =>
          \A m \in minted :
              m[1] = lastAlloc'.kind =>
                  /\ m[3] # lastAlloc'.id
                  /\ (m[2] = lastAlloc'.system => m[3] <= lastAlloc'.id)]_vars

\* C7: an allocation whose result would exceed the numeric range of the
\* kind's id type fails with ResourceExhausted; no wrapped or truncated id
\* is returned; a table id equals the counter value and is below the
\* 32-bit maximum.
C7_OverflowIsResourceExhausted ==
    /\ (lastAlloc.status # "none" /\ lastAlloc.exact > IdTypeMax(lastAlloc.kind))
           => lastAlloc.status = "ResourceExhausted"
    /\ lastAlloc.status = "ok" => lastAlloc.id = lastAlloc.exact
    /\ (lastAlloc.status = "ok" /\ lastAlloc.kind = "Table")
           => lastAlloc.id < TableIdMax

-----------------------------------------------------------------------------
(* Claims about constraint-definition interning                             *)

\* A call has run to its end and returns a definition.
Finished(t) == cdPc[t] = "unlock" /\ cdResult[t].status = "ok"

\* The records of the definitions constructed by op with the call's
\* (system, type, expression) before the call of thread t.
Earlier(t, op) ==
    {r \in m_constraintDefinitionRegistry :
        /\ r.m_type = cdCall[t].type
        /\ r.m_expression = Serialize(cdCall[t].expression)
        /\ <<r.m_id, op, cdCall[t].system>> \in createdBy
        /\ ~(cdResult[t].added = 1 /\ r.m_id = cdResult[t].id)}

EarlierAny(t) ==
    Earlier(t, "createConstraintDefinition")
        \cup Earlier(t, "findOrCreateConstraintDefinition")

\* C1: of two createConstraintDefinition calls with the same (system, type,
\* expression), none equal existing before, the first returns
\* existing = FALSE and adds one record, the second returns existing = TRUE
\* and the id of the first, and adds none.
C1_SecondCreateFindsFirst ==
    \A t \in CdThreads :
        (Finished(t) /\ cdCall[t].op = "createConstraintDefinition") =>
            /\ EarlierAny(t) = {} =>
                   cdResult[t].existing = FALSE /\ cdResult[t].added = 1
            /\ (Earlier(t, "createConstraintDefinition") # {}
                   /\ Earlier(t, "findOrCreateConstraintDefinition") = {}) =>
                   /\ cdResult[t].existing = TRUE
                   /\ cdResult[t].added = 0
                   /\ \A r \in Earlier(t, "createConstraintDefinition") :
                          r.m_id = cdResult[t].id
                   /\ Cardinality(Earlier(t, "createConstraintDefinition")) = 1

\* C2: a definition returned by createConstraintDefinition is what every
\* later findOrCreateConstraintDefinition with the same content returns, no
\* record being added; and a definition first created by
\* findOrCreateConstraintDefinition is found by a later
\* createConstraintDefinition (existing = TRUE, same id).
C2_CreateAndFindAgree ==
    \A t \in CdThreads :
        /\ (Finished(t) /\ cdCall[t].op = "findOrCreateConstraintDefinition") =>
               \A r \in Earlier(t, "createConstraintDefinition") :
                   r.m_id = cdResult[t].id /\ cdResult[t].added = 0
        /\ (Finished(t) /\ cdCall[t].op = "createConstraintDefinition") =>
               \A r \in Earlier(t, "findOrCreateConstraintDefinition") :
                   /\ r.m_id = cdResult[t].id
                   /\ cdResult[t].existing = TRUE
                   /\ cdResult[t].added = 0

\* C3: a call with system = TRUE never returns a definition created with
\* system = FALSE, and the other way round.
C3_PartitionsNeverShared ==
    \A t \in CdThreads :
        Finished(t) =>
            \A c \in createdBy :
                c[1] = cdResult[t].id => c[3] = cdCall[t].system

IsSystemId(id) == id < kFirstUserTableConstraintDefinitionId

\* C4: in every state the registry holds at most one record per
\* (system-flag, type, serialized expression), and a call that asks for a
\* triple some call has created obtains that record's id and creates nothing.
C4_OneRecordPerTriple ==
    /\ \A r1, r2 \in m_constraintDefinitionRegistry :
           (/\ r1.m_type = r2.m_type
            /\ r1.m_expression = r2.m_expression
            /\ IsSystemId(r1.m_id) = IsSystemId(r2.m_id)) => r1 = r2
    /\ \A t \in CdThreads :
           Finished(t) =>
               \A r \in EarlierAny(t) :
                   r.m_id = cdResult[t].id /\ cdResult[t].added = 0

-----------------------------------------------------------------------------
(* Claims about release()                                                  *)

Released == {t \in Threads : relOutcome[t] = "released"}

Refused == {t \in Threads : relOutcome[t] = "CannotReleaseUnusedDatabase"}

Callers == {t \in Threads : relPc[t] # "idle"}

Min(a, b) == IF a <= b THEN a ELSE b

\* C8: under any interleaving of release() calls the use count never goes
\* below zero, every successful release() lowers it by exactly one, a
\* release() that observes zero fails and leaves it at zero, and of n callers
\* on a use count of k exactly min(n, k) succeed.
C8_ReleaseIsExact ==
    /\ m_useCount \in 0..initialUseCount
    /\ m_useCount + Cardinality(Released) = initialUseCount
    /\ \A t \in Refused : useCount[t] = 0 /\ m_useCount = 0
    /\ (\A t \in Threads : relPc[t] \in {"idle", "done"})
           => Cardinality(Released) = Min(Cardinality(Callers), initialUseCount)

\* Three callers raced for a use count of two: two released, one was refused.
C8_Witness ==
    /\ initialUseCount = 2
    /\ \A t \in Threads : relPc[t] = "done"
    /\ Cardinality(Released) = 2
    /\ Cardinality(Refused) = Cardinality(Threads) - 2
    /\ \E t \in Released : useCount[t] = 1

-----------------------------------------------------------------------------
(* createUserTable: what a batch of column specifications violates         *)

\* The constraint at position j of column i comes before the one at <<i2, j2>>.
Before(i, j, i2, j2) == i < i2 \/ (i = i2 /\ j < j2)

AllColumns(specs) == 1..Len(specs)

\* The columns whose name is valid and not the name of an earlier column.
ColumnsWithAcceptedName(specs) ==
    {i \in 1..Len(specs) :
        /\ isValidDatabaseObjectName(specs[i].m_name)
        /\ \A i0 \in 1..(i - 1) : specs[i0].m_name # specs[i].m_name}

\* The violations of a batch, as <<code, column, constraint, type>>, when the
\* constraints of the columns in cols are taken into account.
Violations(specs, cols) ==
    {<<"kErrorInvalidColumnName", i, 0, "">> :
        i \in {i \in 1..Len(specs) : ~isValidDatabaseObjectName(specs[i].m_name)}}
    \cup
    {<<"kErrorCreateTableDuplicateColumnName", i, 0, "">> :
        i \in {i \in 1..Len(specs) :
                 /\ isValidDatabaseObjectName(specs[i].m_name)
                 /\ \E i0 \in 1..(i - 1) : specs[i0].m_name = specs[i].m_name}}
    \cup
    UNION {
        {<<"kErrorInvalidConstraintName", i, j, "">> :
            j \in {j \in 1..Len(specs[i].m_constraints) :
                     /\ specs[i].m_constraints[j].m_name # ""
                     /\ ~isValidDatabaseObjectName(specs[i].m_constraints[j].m_name)}}
        \cup
        {<<"kErrorCreateTableDuplicateConstraintName", i, j, "">> :
            j \in {j \in 1..Len(specs[i].m_constraints) :
                     /\ specs[i].m_constraints[j].m_name # ""
                     /\ isValidDatabaseObjectName(specs[i].m_constraints[j].m_name)
                     /\ \E i0 \in cols : \E j0 \in 1..Len(specs[i0].m_constraints) :
                            /\ Before(i0, j0, i, j)
                            /\ specs[i0].m_constraints[j0].m_name
                                   = specs[i].m_constraints[j].m_name}}
        \cup
        {<<"kErrorConstraintAlreadyExists", i, j, "">> :
            j \in {j \in 1..Len(specs[i].m_constraints) :
                     /\ specs[i].m_constraints[j].m_name # ""
                     /\ isValidDatabaseObjectName(specs[i].m_constraints[j].m_name)
                     /\ ConstraintNameInUse(specs[i].m_constraints[j].m_name)}}
        \cup
        {<<"kErrorCreateTableDuplicateColumnConstraintType", i, 0, t>> :
            t \in {t \in ConstraintTypes :
                     Cardinality({j \in 1..Len(specs[i].m_constraints) :
                                     specs[i].m_constraints[j].m_type = t}) > 1}}
        : i \in cols}

\* The error record a violation is reported with.
RecordOf(specs, v) ==
    makeDatabaseError(v[1],
        IF v[1] \in {"kErrorInvalidColumnName", "kErrorCreateTableDuplicateColumnName",
                     "kErrorInvalidConstraintName"}
        THEN <<specs[v[2]].m_name>>
        ELSE IF v[1] = "kErrorCreateTableDuplicateConstraintName"
        THEN <<specs[v[2]].m_constraints[v[3]].m_name>>
        ELSE IF v[1] = "kErrorConstraintAlreadyExists"
        THEN <<m_name, specs[v[2]].m_constraints[v[3]].m_name>>
        ELSE <<v[4], specs[v[2]].m_name>>)

ErrorCodes ==
    {"kErrorInvalidColumnName", "kErrorCreateTableDuplicateColumnName",
     "kErrorInvalidConstraintName", "kErrorCreateTableDuplicateConstraintName",
     "kErrorConstraintAlreadyExists", "kErrorCreateTableDuplicateColumnConstraintType"}

\* The number of records of errors that carry the code.
CountOf(errors, code) ==
    Cardinality({k \in 1..Len(errors) : errors[k].m_errorCode = code})

\* A step in which createUserTable is called for a disk table.
CutCalled == cutPc = "idle" /\ cutPc' # "idle" /\ cutCall'.type = "kDisk"

\* The catalog state createUserTable can change is left as it was.
CatalogUnchanged ==
    UNCHANGED <<m_tableRegistry, m_tableCache, m_columnRegistry, m_constraintRegistry,
                m_tmpTridCounters, m_lastSystemTrid, m_lastUserTrid>>

\* C9: whenever a column-name, constraint-name or per-column constraint-type
\* check of a createUserTable call fails, the call raises the compound error
\* and the table, column and constraint registries, the table cache and the
\* id counters are exactly as before the call.
C9_ValidationFailureChangesNothing ==
    [][(CutCalled /\ Violations(cutCall'.columnSpecs, AllColumns(cutCall'.columnSpecs)) # {})
           => /\ cutResult'.status = "CompoundDatabaseError"
              /\ cutPc' = "done"
              /\ CatalogUnchanged]_vars

\* A call with a duplicate constraint name in the batch has raised.
C9_Witness ==
    /\ cutPc = "done"
    /\ cutResult.status = "CompoundDatabaseError"
    /\ \E k \in 1..Len(cutResult.errors) :
           cutResult.errors[k].m_errorCode = "kErrorCreateTableDuplicateConstraintName"

\* C10 (as stated): every column specification and every constraint
\* specification of the batch is examined and each violation contributes an
\* error record to the compound error raised after the batch, a violation of
\* a column name not suppressing the examination of that column's constraints.
C10_EveryViolationReported ==
    [][CutCalled =>
          \A code \in ErrorCodes :
              CountOf(cutResult'.errors, code) >=
                  Cardinality({v \in Violations(cutCall'.columnSpecs,
                                                AllColumns(cutCall'.columnSpecs)) :
                                  v[1] = code})]_vars

\* C10 (amended): the whole batch is gone through and the errors are raised
\* together, once, after it; a column whose name is invalid or a duplicate
\* contributes that one error and its constraints are not examined, while the
\* columns after it are; every violation of a column name and every violation
\* among the constraints of the columns with an accepted name contributes
\* exactly one error record, and there are no other records.
C10_ExaminedViolationsReported ==
    [][CutCalled =>
          LET specs == cutCall'.columnSpecs
              expected == Violations(specs, ColumnsWithAcceptedName(specs))
              errors == cutResult'.errors IN
          /\ (expected # {}) <=> (cutResult'.status = "CompoundDatabaseError")
          /\ (expected = {}) => (errors = <<>> /\ cutPc' = "createTable")
          /\ \A code \in ErrorCodes :
                 CountOf(errors, code) = Cardinality({v \in expected : v[1] = code})
          /\ {errors[k] : k \in 1..Len(errors)} = {RecordOf(specs, v) : v \in expected}]_vars

\* A call has raised whose first column has a rejected name and constraints,
\* and whose second column has an accepted name and a reported violation.
C10_Witness ==
    /\ cutPc = "done"
    /\ cutResult.status = "CompoundDatabaseError"
    /\ Len(cutCall.columnSpecs) = 2
    /\ 1 \notin ColumnsWithAcceptedName(cutCall.columnSpecs)
    /\ cutCall.columnSpecs[1].m_constraints # <<>>
    /\ 2 \in ColumnsWithAcceptedName(cutCall.columnSpecs)
    /\ Len(cutResult.errors) > 1


\* C11: when createUserTable fails after its validation has passed (column
\* creation or recording the table definition raises), the table registry
\* and the table cache are as before the call, which in every behaviour of
\* SpecCut is empty: the table is registered only once it has been persisted.
C11_FailureAfterValidationRollsBack ==
    (/\ cutPc = "done"
     /\ cutResult.status \notin {"ok", "CompoundDatabaseError", "TableTypeNotSupported"})
        => (m_tableRegistry = {} /\ m_tableCache = <<>>)

-----------------------------------------------------------------------------
(* Claims about tables                                                      *)

\* The call of thread t has run to its end.
CatDone(t) == catPc[t] \in {"unlock", "done"}

\* The step in which the locked part of thread t's call runs.
CatRuns(t, ops) ==
    catPc[t] = "locked" /\ catPc'[t] = "unlock" /\ catCall[t].op \in ops

TableRecordsUnique ==
    \A r1, r2 \in m_tableRegistry :
        (r1.m_name = r2.m_name \/ r1.m_id = r2.m_id) => r1 = r2

\* Of two creations of one name, both called while the name was not
\* registered and neither failing for another reason, exactly one succeeds.
OneCreationWins ==
    \A t1, t2 \in CatThreads :
        (/\ t1 # t2
         /\ CatDone(t1) /\ CatDone(t2)
         /\ catCall[t1].op = "createTable" /\ catCall[t2].op = "createTable"
         /\ catCall[t1].name = catCall[t2].name
         /\ ~catCall[t1].registered /\ ~catCall[t2].registered
         /\ {catResult[t1].status, catResult[t2].status}
                \subseteq {"ok", "TableAlreadyExists"})
            => {catResult[t1].status, catResult[t2].status} = {"ok", "TableAlreadyExists"}

RegisteredNameRefused ==
    \A t \in CatThreads :
        (/\ CatRuns(t, {"createTable"})
         /\ \E r \in m_tableRegistry : r.m_name = catCall[t].name)
            => /\ catResult'[t].status = "TableAlreadyExists"
               /\ UNCHANGED <<m_tableRegistry, m_tableCache>>

\* C12: after any interleaving of table creations no two records of the
\* table registry share a name or an id; creating a table whose name is
\* registered raises TableAlreadyExists and leaves the table registry and the
\* table cache unchanged; of two concurrent creations of one name exactly
\* one succeeds.
C12_TablesUniqueAndOneCreationWins ==
    /\ [](TableRecordsUnique /\ OneCreationWins)
    /\ [][RegisteredNameRefused]_vars

\* Two creations of one name were in progress together; one succeeded and
\* the other was refused, while another table is registered too.
C12_Witness ==
    /\ catPc[1] = "done" /\ catPc[2] = "unlock"
    /\ catCall[1].op = "createTable" /\ catCall[2].op = "createTable"
    /\ catCall[1].name = catCall[2].name
    /\ ~catCall[1].registered /\ ~catCall[2].registered
    /\ catResult[1].status = "ok"
    /\ catResult[2].status = "TableAlreadyExists"

\* The records a getTableChecked call looks for.
RecordsSought(call) ==
    IF call.op = "getTableCheckedByName"
    THEN {r \in m_tableRegistry : r.m_name = call.name}
    ELSE {r \in m_tableRegistry : r.m_id = call.id}

-----------------------------------------------------------------------------
(* Claims about createConstraint                                            *)

ConstraintNamesUnique ==
    \A r1, r2 \in m_constraintRegistry : r1.m_name = r2.m_name => r1 = r2

\* Of two calls with one name, both made while the name was not registered
\* and neither failing for another reason, exactly one registers a constraint.
OneConstraintWins ==
    \A t1, t2 \in CatThreads :
        (/\ t1 # t2
         /\ CatDone(t1) /\ CatDone(t2)
         /\ catCall[t1].op = "createConstraint" /\ catCall[t2].op = "createConstraint"
         /\ catCall[t1].name = catCall[t2].name
         /\ ~catCall[t1].registered /\ ~catCall[t2].registered
         /\ {catResult[t1].status, catResult[t2].status}
                \subseteq {"ok", "ConstraintAlreadyExists"})
            => /\ {catResult[t1].status, catResult[t2].status}
                      = {"ok", "ConstraintAlreadyExists"}
               /\ Cardinality({r \in m_constraintRegistry :
                                  r.m_name = catCall[t1].name}) = 1

UsedConstraintNameRefused ==
    \A t \in CatThreads :
        (/\ CatRuns(t, {"createConstraint"})
         /\ \E r \in m_constraintRegistry : r.m_name = catCall[t].name)
            => /\ catResult'[t].status = "ConstraintAlreadyExists"
               /\ UNCHANGED m_constraintRegistry

\* C13: after any interleaving of createConstraint calls no two records of
\* the constraint registry share a name; a call whose name is in the registry
\* raises ConstraintAlreadyExists and leaves the registry unchanged; of two
\* concurrent calls with one new name exactly one registers a constraint.
C13_ConstraintNamesUnique ==
    /\ [](ConstraintNamesUnique /\ OneConstraintWins)
    /\ [][UsedConstraintNameRefused]_vars

\* Two calls with one new name were in progress together: one registered the
\* constraint, the other was refused.
C13_Witness ==
    /\ catPc[1] = "done" /\ catPc[2] = "unlock"
    /\ catCall[1].op = "createConstraint" /\ catCall[2].op = "createConstraint"
    /\ catCall[1].name = catCall[2].name
    /\ ~catCall[1].registered /\ ~catCall[2].registered
    /\ catResult[1].status = "ok"
    /\ catResult[2].status = "ConstraintAlreadyExists"

\* C14: createConstraint of this database called with a table of the other
\* database fails with TableDoesNotBelongToDatabase before any other check
\* (whatever the column, the name and the definition are), and the
\* constraint registries of both databases stay as they are.
C14_ForeignTableRefused ==
    [][\A t \in CatThreads :
          (/\ catPc[t] = "idle"
           /\ catCall'[t].op = "createConstraint"
           /\ catCall'[t].database = "other")
              => /\ catResult'[t].status = "TableDoesNotBelongToDatabase"
                 /\ catPc'[t] = "done"
                 /\ UNCHANGED <<m_constraintRegistry, otherConstraintRegistry,
                                m_mutex, m_lastUserTrid>>]_vars

\* A call with a table of the other database, a column of another table and
\* a name in use has been refused for the table.
C14_Witness ==
    \E t \in CatThreads :
        /\ catPc[t] = "done"
        /\ catCall[t].op = "createConstraint"
        /\ catCall[t].database = "other"
        /\ catCall[t].columnOf = "foreign"
        /\ catCall[t].registered
        /\ catResult[t].status = "TableDoesNotBelongToDatabase"
        /\ otherConstraintRegistry # {}

-----------------------------------------------------------------------------
(* Claims about the caches                                                  *)

\* C16: in every state in which the database mutex is free, every id in the
\* table cache has a record in the table registry and every id in the
\* constraint-definition cache has a record in the constraint-definition
\* registry.
C16_CachedHaveRecords ==
    (m_mutex = 0) =>
        /\ \A i \in 1..Len(m_tableCache) :
               \E r \in m_tableRegistry : r.m_id = m_tableCache[i]
        /\ \A i \in 1..Len(m_constraintDefinitionCache) :
               \E r \in m_constraintDefinitionRegistry :
                   r.m_id = m_constraintDefinitionCache[i]

\* The mutex is free, both caches hold an entry, and a registered table is
\* not in the table cache: the converse does not hold.
C16_Witness ==
    /\ m_mutex = 0
    /\ m_tableCache # <<>>
    /\ m_constraintDefinitionCache # <<>>
    /\ \E r \in m_tableRegistry : ~InCache(m_tableCache, r.m_id)

-----------------------------------------------------------------------------
(* Claims about the data directory and the initialization flag file         *)

\* C17: ensureDataDir(create=true) raises DatabaseAlreadyExists, leaving the
\* file system as it was, when (and only when) the initialization flag file
\* existed at the call; otherwise, when it succeeds, the data directory
\* exists, holds nothing of what it held, and has no initialization flag file.
C17_EnsureDataDirCreate ==
    (dirResult.op = "ensureDataDir" /\ dirResult.create) =>
        /\ dirResult.before.initFlagFile # "absent" =>
               /\ dirResult.status = "DatabaseAlreadyExists"
               /\ DirState = dirResult.before
        /\ dirResult.status = "DatabaseAlreadyExists" =>
               dirResult.before.initFlagFile # "absent"
        /\ dirResult.status = "ok" =>
               /\ dataDirExists
               /\ dataDirFiles = 0
               /\ initFlagFile = "absent"

\* ensureDataDir(create=true) has succeeded over a stale directory that held
\* files.
C17_Witness ==
    /\ dirResult.op = "ensureDataDir"
    /\ dirResult.create
    /\ dirResult.status = "ok"
    /\ dirResult.before.dataDirExists
    /\ dirResult.before.dataDirFiles > 0

\* C18: ensureDataDir(create=false) never changes the file system; it
\* succeeds exactly when the data directory and the initialization flag file
\* both exist, raises DatabaseDataFolderDoesNotExist when the directory is
\* missing and DatabaseInitFileDoesNotExist when the directory exists without
\* the flag file.
C18_EnsureDataDirOpen ==
    (dirResult.op = "ensureDataDir" /\ ~dirResult.create) =>
        /\ DirState = dirResult.before
        /\ dirResult.status = "ok" <=>
               (dataDirExists /\ initFlagFile # "absent")
        /\ ~dataDirExists => dirResult.status = "DatabaseDataFolderDoesNotExist"
        /\ (dataDirExists /\ initFlagFile = "absent") =>
               dirResult.status = "DatabaseInitFileDoesNotExist"

\* ensureDataDir(create=false) has found the directory without its flag file.
C18_Witness ==
    /\ dirResult.op = "ensureDataDir"
    /\ ~dirResult.create
    /\ dirResult.status = "DatabaseInitFileDoesNotExist"
    /\ dataDirExists

\* C19: between calls (a crash included), the initialization flag file exists
\* only if createInitializationFlagFile has succeeded since the directory was
\* last created; and once createInitializationFlagFile has raised, with no
\* success since the directory was last created, ensureDataDir(create=false)
\* does not succeed and ensureDataDir(create=true) does not raise
\* DatabaseAlreadyExists.
C19_FlagFileIsSoundMarker ==
    (dirPc = "idle") =>
        /\ initFlagFile # "absent" => flagFileCompleted
        /\ (flagFileRaised /\ ~flagFileCompleted /\ dirResult.op = "ensureDataDir") =>
               IF dirResult.create
               THEN dirResult.status # "DatabaseAlreadyExists"
               ELSE dirResult.status # "ok"

-----------------------------------------------------------------------------
(* Claims about the register functions                                      *)

\* The step in which thread t's register function acts on the registry.
Registers(t) ==
    /\ catPc[t] = "locked"
    /\ catCall[t].op \in RegisterOps
    /\ catPc'[t] = "unlock"

\* The registry holds a record with the id, or, for a kind with unique names,
\* with the name, of the object being registered by thread t.
KeyInUse(t) ==
    LET kind == RegisteredKind(catCall[t].op) IN
    \E r \in RegistryOf(kind) :
        \/ r.m_id = catCall[t].id
        \/ kind \in UniqueNameKinds /\ r.m_name = catCall[t].name

-----------------------------------------------------------------------------
(* Claims about the update functions                                        *)

\* The step in which thread t's update function acts on the registry.
Updates(t) ==
    /\ catPc[t] = "locked"
    /\ catCall[t].op \in {UpdateOp[kind] : kind \in UpdatedKinds}
    /\ catPc'[t] = "unlock"

\* C21: an update function whose object's id has no record raises
\* ColumnDefinitionDoesNotExist / ColumnSetDoesNotExist and no registry
\* changes; otherwise it succeeds, the records with other ids stay as they
\* are, the one record with the object's id is the object's record, and the
\* number of records is what it was.
C21_UpdateReplacesRegistered ==
    [][\A t \in CatThreads : Updates(t) =>
          LET kind == UpdatedKind(catCall[t].op)
              id == catCall[t].id
              before == IF kind = "ColumnDefinition" THEN m_columnDefinitionRegistry
                        ELSE m_columnSetRegistry
              after == IF kind = "ColumnDefinition" THEN m_columnDefinitionRegistry'
                       ELSE m_columnSetRegistry'
          IN  IF ~\E r \in before : r.m_id = id
              THEN /\ catResult'[t].status =
                          (IF kind = "ColumnDefinition"
                           THEN "ColumnDefinitionDoesNotExist"
                           ELSE "ColumnSetDoesNotExist")
                   /\ UNCHANGED <<m_tableRegistry, m_columnRegistry, m_constraintRegistry,
                                  m_constraintDefinitionRegistry, regVars>>
              ELSE /\ catResult'[t].status = "ok"
                   /\ {r \in after : r.m_id # id} = {r \in before : r.m_id # id}
                   /\ {r \in after : r.m_id = id} =
                          {[m_id |-> id, m_name |-> catCall[t].name]}
                   /\ Cardinality(after) = Cardinality(before)
                   /\ UNCHANGED <<m_tableRegistry, m_columnRegistry, m_constraintRegistry,
                                  m_constraintDefinitionRegistry, m_indexRegistry>>]_vars

\* An update has replaced a record by one of other contents, next to a
\* record of another id.
C21_Witness ==
    \E t \in CatThreads :
        /\ catCall[t].op = "updateColumnSetRegistration"
        /\ catResult[t].status = "ok"
        /\ [m_id |-> catCall[t].id, m_name |-> "b"] \in m_columnSetRegistry
        /\ Cardinality(m_columnSetRegistry) = 2

-----------------------------------------------------------------------------
(* Claims about the mutex                                                   *)

\* C22: a thread that is at a read or write of a registry, a cache or an id
\* counter holds the mutex; so no thread is at the table registry's iterator
\* or at a temporary counter while another thread is inside a registry
\* insert or at that counter.
C22_CatalogAccessHoldsMutex ==
    /\ \A t \in CatThreads :
           catPc[t] \in {"iterate", "locked", "increment", "store"} => m_mutex = t
    /\ \A t \in CatThreads : \A u \in CatThreads \ {t} :
           ~ /\ catPc[t] \in {"iterate", "increment", "store"}
             /\ catPc[u] \in {"locked", "increment", "store"}


-----------------------------------------------------------------------------
(* InstanceOptions::load: claims                                            *)

Loaded == loadResult.status # "none"

\* The four ports of the configuration: server IPv4 and IPv6, IOMgr IPv4
\* and IPv6.
ConfigPorts == <<config.ipv4_port, config.ipv6_port,
                 config.iomgr_ipv4_port, config.iomgr_ipv6_port>>

\* The configuration is the sample one but for its ports.
OnlyPortsDiffer ==
    config = [BaseConfig EXCEPT !.ipv4_port = config.ipv4_port,
                                !.ipv6_port = config.ipv6_port,
                                !.iomgr_ipv4_port = config.iomgr_ipv4_port,
                                !.iomgr_ipv6_port = config.iomgr_ipv6_port]

\* C23: load rejects with InvalidConfigurationOption a configuration whose
\* server ports are both 0 or that has a nonzero server or IOMgr port outside
\* [kMinPortNumber, kMaxPortNumber]; with everything else valid, a port of 0
\* in one family is accepted when the other port of the server, and of
\* IOMgr, is a valid nonzero one.
C23_PortsChecked ==
    Loaded =>
        /\ (\/ config.ipv4_port = 0 /\ config.ipv6_port = 0
            \/ \E i \in 1..4 :
                   /\ ConfigPorts[i] # 0
                   /\ (ConfigPorts[i] < kMinPortNumber \/ ConfigPorts[i] > kMaxPortNumber))
               => loadResult.status = "InvalidConfigurationOption"
        /\ (/\ OnlyPortsDiffer
            /\ \A i \in 1..4 :
                   ConfigPorts[i] = 0
                       \/ (ConfigPorts[i] >= kMinPortNumber /\ ConfigPorts[i] <= kMaxPortNumber)
            /\ (config.ipv4_port = 0) # (config.ipv6_port = 0)
            /\ (config.iomgr_ipv4_port = 0) # (config.iomgr_ipv6_port = 0)
            /\ \A i \in 1..2 : \A j \in 3..4 :
                   ConfigPorts[i] = 0 \/ ConfigPorts[i] # ConfigPorts[j])
               => loadResult.status = "ok"

\* A configuration with IPv4 disabled for the server and IPv6 disabled for
\* IOMgr has been loaded.
C23_Witness ==
    /\ Loaded
    /\ loadResult.status = "ok"
    /\ config.ipv4_port = 0 /\ config.ipv6_port # 0
    /\ config.iomgr_ipv4_port # 0 /\ config.iomgr_ipv6_port = 0
    /\ m_options.m_ipv4port = 0

\* C24: in a configuration that load accepts no nonzero IOMgr port equals a
\* server port, and a configuration where one does is rejected with
\* InvalidConfigurationOption.
C24_NoPortCollision ==
    Loaded =>
        LET collision ==
                \E i \in 1..2 : \E j \in 3..4 :
                    ConfigPorts[j] # 0 /\ ConfigPorts[j] = ConfigPorts[i]
        IN /\ loadResult.status = "ok" => ~collision
           /\ collision => loadResult.status = "InvalidConfigurationOption"

\* The configuration is the sample one but for its client options.
OnlyClientDiffers ==
    config = [BaseConfig EXCEPT
                  !.client_enable_encryption = config.client_enable_encryption,
                  !.client_tls_certificate = config.client_tls_certificate,
                  !.client_tls_certificate_chain = config.client_tls_certificate_chain,
                  !.client_tls_private_key = config.client_tls_private_key]

\* C25: with client.enable_encryption true and everything else valid, load
\* succeeds exactly when client.tls_private_key is not empty and one of
\* client.tls_certificate and client.tls_certificate_chain is not empty.
C25_TlsFilesRequired ==
    (Loaded /\ OnlyClientDiffers /\ getBool(config.client_enable_encryption)) =>
        (loadResult.status = "ok"
            <=> /\ trim_copy(config.client_tls_private_key) # <<>>
                /\ \/ trim_copy(config.client_tls_certificate) # <<>>
                   \/ trim_copy(config.client_tls_certificate_chain) # <<>>)

\* C26: the options a successful load has saved have a data directory that
\* is not empty and does not end with '/', backlogs and connection numbers
\* within their limits, thread numbers of at least 1 and cache capacities of
\* at least their minimum; a load that throws leaves the object as it was.
C26_LoadedOptionsValid ==
    /\ loadResult.status = "ok" =>
           /\ m_options.m_dataDirectory # <<>>
           /\ m_options.m_dataDirectory[Len(m_options.m_dataDirectory)] # "/"
           /\ m_options.m_adminConnectionListenerBacklog
                  \in 1..kMaxAdminConnectionListenerBacklog
           /\ m_options.m_maxAdminConnections \in 1..kMaxMaxAdminConnections
           /\ m_options.m_userConnectionListenerBacklog
                  \in 1..kMaxUserConnectionListenerBacklog
           /\ m_options.m_maxUserConnections \in 1..kMaxMaxUserConnections
           /\ m_options.m_workerThreadNumber >= 1
           /\ m_options.m_writerThreadNumber >= 1
           /\ m_options.m_blockCacheCapacity >= kMinIOManagerBlockCacheCapacity
           /\ m_options.m_userCacheCapacity >= kMinIOManagerUserCacheCapacity
           /\ m_options.m_databaseCacheCapacity >= kMinIOManagerDatabaseCacheCapacity
           /\ m_options.m_tableCacheCapacity >= kMinIOManagerTableCacheCapacity
    /\ loadResult.status \in {"InvalidConfigurationOption", "runtime_error"} =>
           m_options = loadResult.before

\* A data directory written with spaces around it and slashes at its end has
\* been loaded.
C26_Witness ==
    /\ loadResult.status = "ok"
    /\ config.data_dir = <<" ", "d", "/", "/", " ">>
    /\ m_options.m_dataDirectory = <<"d">>
    /\ m_options # loadResult.before


-----------------------------------------------------------------------------
(* siodbMain: claims                                                        *)

\* C27: the exit code of siodbMain is 0 for a normal exit (--help, the
\* parent of the daemon, the exit event), 1 for bad command-line arguments,
\* 2 for an error of the configuration or of the log initialization, 3 for a
\* failure to daemonize and 4 for an error after logging is up.
C27_ExitCodeClassifiesOutcome ==
    \A p \in Servers :
        mainPc[p] = "returned" =>
            /\ exitCode[p] \in 0..4
            /\ exitCause[p] \in {"help", "parent", "signal"} => exitCode[p] = 0
            /\ exitCause[p] \in {"argc", "unknownOption"} => exitCode[p] = 1
            /\ exitCause[p] \in {"load", "logInit"} => exitCode[p] = 2
            /\ exitCause[p] \in {"daemon", "fork"} => exitCode[p] = 3
            /\ exitCause[p] \in {"openLock", "lock", "removeFlag", "iomgrExited", "managers"}
                   => exitCode[p] = 4

\* C28: a server process has connection managers only if its waiting loop
\* saw the flag file, the flag file was created by the IOMgr of this run and
\* IOMgr was alive at the check after the loop; once the monitor is started
\* no flag file of an earlier run exists; a process whose IOMgr exited before
\* the flag file was seen creates no connection manager and returns 4.
C28_ManagersAfterIomgrInitialized ==
    \A p \in Servers :
        /\ managers[p] # <<>> =>
               observed[p].flag /\ observed[p].run = p /\ observed[p].alive
        /\ (mainPc[p] \in {"wait", "check", "managers", "serving"}
                /\ iomgrInitFlagFile.exists)
               => iomgrInitFlagFile.run = p
        /\ (mainPc[p] = "returned" /\ iomgr[p] # "none" /\ ~observed[p].flag)
               => managers[p] = <<>> /\ exitCode[p] = 4 /\ exitCause[p] = "iomgrExited"

\* A process that found and removed the flag file of an earlier run serves
\* with its connection managers.
C28_Witness ==
    \E p \in Servers :
        /\ mainPc[p] = "serving"
        /\ removedFlag[p]
        /\ managers[p] # <<>>
        /\ observed[p].run = p

\* C29: at most one server process of the instance holds the initialization
\* lock and runs an IOMgr; a process is past the lock only while it holds it;
\* the process that does not get the lock returns 4 without having removed
\* the flag file, started an IOMgr or created a connection manager.
C29_OneServerPerInstance ==
    /\ Cardinality(lockHolders) <= 1
    /\ Cardinality({p \in Servers : iomgr[p] \in {"running", "initialized"}}) <= 1
    /\ \A p \in Servers :
           mainPc[p] \in {"flag", "monitor", "wait", "check", "managers", "serving"}
               => p \in lockHolders
    /\ \A p \in Servers :
           exitCause[p] = "lock" =>
               /\ exitCode[p] = 4
               /\ ~removedFlag[p]
               /\ iomgr[p] = "none"
               /\ managers[p] = <<>>

\* One process serves and another one has failed to get the lock while the
\* flag file of the first existed.
C29_Witness ==
    \E p \in Servers : \E q \in Servers \ {p} :
        /\ mainPc[p] = "serving"
        /\ p \in lockHolders
        /\ exitCause[q] = "lock"
        /\ iomgrInitFlagFile.exists


-----------------------------------------------------------------------------
(* executeCommandOnServer: claims                                           *)

\* The response is the one the client expects as the n-th of the series.
InOrder(n) ==
    received[n].request_id = requestId /\ received[n].response_id = n - 1

\* The length of the series that the first response announces.
AnnouncedCount ==
    IF received[1].response_count = 0 THEN 1 ELSE received[1].response_count

\* C30: executeCommandOnServer reads a further response only after responses
\* that carry the request id sent and the response ids 0, 1, 2, ...; a
\* response that does not raises an error and is the last one read; the
\* length of the series is what the first response announces, 0 meaning 1,
\* whatever later responses announce; no more responses than that are read,
\* and exactly that many when the call returns.
C30_ResponsesInOrder ==
    LET n == Len(received) IN
    /\ \A i \in 1..(n - 1) : InOrder(i)
    /\ (n >= 1 /\ ~InOrder(n)) =>
           /\ clientPc = "thrown"
           /\ clientError \in {"Wrong request ID in the server response",
                               "Wrong response ID in the server response"}
    /\ (n >= 1 /\ InOrder(1)) =>
           /\ n <= AnnouncedCount
           /\ clientPc = "read" => n < AnnouncedCount
    /\ clientPc = "returned" =>
           /\ n = AnnouncedCount
           /\ \A i \in 1..n : InOrder(i)

\* A series of three responses has been read to its end, the later
\* responses announcing other lengths than the first.
C30_Witness ==
    /\ clientPc = "returned"
    /\ Len(received) = 3
    /\ received[1].response_count = 3
    /\ received[2].response_count = 1
    /\ received[3].response_count = 0


-----------------------------------------------------------------------------
(* createConstraint without a column                                        *)

\* C31: a createConstraint call without a column never uses the absent
\* column: under the mutex it does not fault, and it registers no constraint
\* of a type whose constructor takes the column (NotNull, DefaultValue); it
\* raises a database error or makes a constraint without column.
C31_AbsentColumnNeverUsed ==
    [][\A t \in CatThreads :
          (/\ catCall[t].op = "createConstraint"
           /\ catCall[t].columnOf = "absent"
           /\ catPc[t] = "locked")
              => /\ catPc'[t] # "faulted"
                 /\ catResult'[t].status = "ok"
                        => catCall[t].type \notin {"NotNull", "DefaultValue"}]_vars


-----------------------------------------------------------------------------
(* createUserTable: when the validation passes                              *)

\* The positions <<column, constraint>> of the constraint specifications of
\* a batch.
ConstraintPositions(specs) ==
    UNION {{<<i, k>> : k \in 1..Len(specs[i].m_constraints)} : i \in 1..Len(specs)}

ConstraintAt(specs, p) == specs[p[1]].m_constraints[p[2]]

\* The conditions on a batch of column specifications.
BatchIsValid(specs) ==
    /\ \A i \in 1..Len(specs) : specs[i].m_name \in {"a", "b", "n", "T"}
    /\ \A i \in 1..Len(specs) : \A j \in 1..Len(specs) :
           i # j => specs[i].m_name # specs[j].m_name
    /\ \A p \in ConstraintPositions(specs) :
           ConstraintAt(specs, p).m_name # "" =>
               /\ ConstraintAt(specs, p).m_name \in {"a", "b", "n", "T"}
               /\ \A r \in m_constraintRegistry : r.m_name # ConstraintAt(specs, p).m_name
               /\ \A q \in ConstraintPositions(specs) \ {p} :
                      ConstraintAt(specs, q).m_name # ConstraintAt(specs, p).m_name
    /\ \A p \in ConstraintPositions(specs) : \A q \in ConstraintPositions(specs) \ {p} :
           p[1] = q[1] => ConstraintAt(specs, p).m_type # ConstraintAt(specs, q).m_type

\* C32: the validation of createUserTable raises no compound error exactly
\* when every column name is valid, the column names differ, every non-empty
\* constraint name is valid, differs from every other non-empty constraint
\* name of the batch and is not in the constraint registry, and no column has
\* two constraints of one type; no error reports an empty constraint name as
\* a duplicate.
C32_ValidationPassesIffValid ==
    [][CutCalled =>
          /\ (cutResult'.status # "CompoundDatabaseError")
                 <=> BatchIsValid(cutCall'.columnSpecs)
          /\ \A k \in 1..Len(cutResult'.errors) :
                 cutResult'.errors[k].m_errorCode = "kErrorCreateTableDuplicateConstraintName"
                     => cutResult'.errors[k].m_args # <<"">>]_vars

\* A batch of two columns each with a constraint without name has passed the
\* validation, a constraint being registered already.
C32_Witness ==
    /\ cutPc = "createTable"
    /\ Len(cutCall.columnSpecs) = 2
    /\ \A i \in 1..2 : cutCall.columnSpecs[i].m_constraints
                           = <<[m_name |-> "", m_type |-> "NotNull"]>>
    /\ m_constraintRegistry # {}


-----------------------------------------------------------------------------
(* The constraint-definition cache after a call                             *)

\* C33: when createConstraintDefinition or findOrCreateConstraintDefinition
\* is about to return a definition, the constraint-definition cache holds
\* the id of that definition: a hit returns what the cache holds for the
\* matching record and a miss puts the new definition into the cache.
C33_ReturnedDefinitionIsCached ==
    \A t \in CdThreads :
        (cdPc[t] = "unlock" /\ cdResult[t].status = "ok")
            => InCache(m_constraintDefinitionCache, cdResult[t].id)


\* C34: for each table id there is at most one live Table object: the
\* handles that callers hold and the slot of the table cache, when they
\* are for one table id, refer to one object, also after an eviction.
C34_OneLiveObjectPerTable ==
    \A p \in LiveTables, q \in LiveTables : p.id = q.id => p.object = q.object


\* C40: getLatestColumnDefinitionIdForColumn returns the greatest id among
\* the column-definition records of the column, and raises
\* MissingColumnDefinitionsForColumn exactly when the column has no
\* record, for every column id up to the largest one and for the empty
\* registry.
C40_LatestIsGreatestId ==
    latestResult.status # "none" =>
        LET matching == {r \in m_columnDefinitionRegistry :
                             r.m_columnId = latestResult.columnId} IN
        /\ latestResult.status = "kErrorMissingColumnDefinitionsForColumn"
               <=> matching = {}
        /\ matching # {} =>
               /\ \E r \in matching : r.m_id = latestResult.id
               /\ \A r \in matching : r.m_id <= latestResult.id


\* C39: authenticate keeps the order of the handshake: the authentication
\* request with the signed challenge is on the connection only behind a
\* begin-session response with session_started = true; after a begin-session
\* response without it the call has raised and has sent nothing more; and
\* the call returns normally only behind an authentication response with
\* authenticated = true.
C39_HandshakeInOrder ==
    /\ \A i \in WirePositions("ClientAuthenticationRequest") :
           /\ \E k \in WirePositions("BeginSessionResponse") :
                  /\ k < i
                  /\ auth.wire[k].session_started
                  /\ auth.wire[i].signature =
                         signMessage(auth.identityKey, auth.wire[k].challenge)
           /\ \A k \in WirePositions("BeginSessionResponse") :
                  auth.wire[k].session_started
    /\ \A k \in WirePositions("BeginSessionResponse") :
           ~auth.wire[k].session_started =>
               /\ auth.pc = "thrown"
               /\ Len(auth.wire) = k
    /\ auth.pc = "returned" =>
           /\ Len(auth.wire) = 4
           /\ auth.wire[4].type = "ClientAuthenticationResponse"
           /\ auth.wire[4].authenticated

C39_Witness ==
    /\ auth.pc = "returned"
    /\ WirePositions("ClientAuthenticationRequest") = {3}
    /\ auth.wire[2].has_message


\* C38: a response of the series that carries a message with a status code
\* other than 0: its row data is not read; with stopOnError the call raises
\* 'SQL error' and this response is the last one read; without stopOnError
\* the call goes on, expecting the next response id, while the series has
\* responses left, and returns when it has none.
C38_SqlErrorSkipsRows ==
    \A i \in 1..Len(received) :
        (InOrder(i) /\ received[i].status = "sqlError") =>
            /\ i \notin rowDataRead
            /\ stopOnError =>
                   /\ clientPc = "thrown"
                   /\ clientError = "SQL error"
                   /\ Len(received) = i
            /\ (~stopOnError /\ Len(received) = i) =>
                   /\ responseId = i
                   /\ IF i < AnnouncedCount
                      THEN \/ clientPc = "read"
                           \/ clientPc = "thrown" /\ clientError = "Can't read from server"
                      ELSE clientPc = "returned"

\* Without stopOnError a series of three responses has been read to its end:
\* the second one carried an SQL error and column descriptions, and the rows
\* of the other two were read.
C38_Witness ==
    /\ ~stopOnError
    /\ clientPc = "returned"
    /\ Len(received) = 3
    /\ received[2].status = "sqlError"
    /\ received[2].column_description_size > 0
    /\ rowDataRead = {1, 3}


\* C37: the wait for IOMgr ends exactly when the flag file appears or IOMgr
\* stops running.  While the flag file is absent and IOMgr is alive the
\* server stays in the loop, however long; once IOMgr has created the flag
\* file the server gets to the creation of its connection managers, unless
\* IOMgr exits first; once IOMgr has exited the server fails.
C37_WaitEndsWithFlagOrExit ==
    /\ [][\A p \in Servers :
             (/\ mainPc[p] = "wait"
              /\ ~iomgrInitFlagFile.exists
              /\ iomgr[p] \in {"running", "initialized"})
                 => mainPc'[p] = "wait"]_vars
    /\ \A p \in Servers :
           (mainPc[p] = "wait" /\ iomgrInitFlagFile.exists /\ iomgr[p] = "initialized")
               ~> (mainPc[p] = "managers" \/ iomgr[p] = "exited")
    /\ \A p \in Servers :
           (mainPc[p] \in {"wait", "check"} /\ iomgr[p] = "exited")
               ~> (mainPc[p] = "returned" /\ exitCode[p] = 4
                       /\ exitCause[p] = "iomgrExited")

\* IOMgr has exited without creating the flag file while the server waits.
C37_Witness ==
    \E p \in Servers :
        /\ mainPc[p] = "wait"
        /\ ~iomgrInitFlagFile.exists
        /\ iomgr[p] = "exited"


\* C35: a function whose name ends in Unlocked never takes the database
\* mutex itself, and the thread that enters one holds the mutex already.
C35_UnlockedNeverLocks ==
    \A frame \in AllFrames :
        frame.function \in UnlockedFunctions =>
            /\ ~frame.holds
            /\ frame.callerHolds

====
